---- MODULE Spec2Model ----
(***************************************************************************)
(* The stage/session state machine of the ticket chatbot.                  *)
(*                                                                         *)
(* One conversation owns one StageManager (working/backend/utils.py).      *)
(* Every turn the classifier yields (response_text, summary) and           *)
(* route_to_stage dispatches it to the handler of the current stage        *)
(* (creating_part/create.py, editing_part/edit.py); handlers call the      *)
(* ticket gateway (api_call.py).  The classifier's output and the remote   *)
(* API's answers are inputs drawn from small sets.                         *)
(*                                                                         *)
(* Python values that are unions in the source carry a tag `py`:           *)
(*   None, Str(chars), Dict(function), List(sequence), PyInt(n).             *)
(* A Python string is a sequence of one-character strings, so that strip,  *)
(* lower, `in` and len are computed and not assumed.  Generated replies    *)
(* are str values that carry the data rendered into the text (`msg` names  *)
(* the template).  StageManager.stage_history, the log lines and the chat  *)
(* history files are write-only and are left out.                          *)
(*                                                                         *)
(* The intent labels are written without their Vietnamese diacritics:      *)
(*   "tao ticket" (create ticket), "sua ticket" (edit ticket),             *)
(*   "thoat" (exit), "dung" (correct), "sai" (wrong),                      *)
(*   "cho xac nhan" (awaiting confirmation),                               *)
(*   "cap nhat thong tin" (update info), "dang xu ly" (processing),        *)
(*   "hoan thanh" (done), "ticket da duoc tao" (ticket created),           *)
(*   "tao" (create), "Khong tao" (do not create),                          *)
(*   "kiem tra serial number" (check serial), "cap nhat ticket",           *)
(*   "cho thong tin cap nhat", "cho xac nhan cap nhat edit",               *)
(*   "khong xac dinh" (unrecognized).                                      *)
(* edit.py holds its own, differently encoded spellings of these labels:   *)
(* see MacRoman.                                                           *)
(***************************************************************************)
EXTENDS Integers, Sequences, FiniteSets, TLC

VARIABLES stage_manager, turn, is_running, active_sessions, sessions, clock,
          user_input

\* The state of the API server (api_routes.py): the dict active_sessions, the
\* ChatbotSession objects constructed so far, and the time.
api_vars == <<active_sessions, sessions, clock>>

vars == <<stage_manager, turn, is_running, active_sessions, sessions, clock, user_input>>

-----------------------------------------------------------------------------
(* Bounds of the model *)

\* Longest list of configuration items the remote API answers with.
MaxCI == 6

\* Longest list of tickets the remote API answers with.
MaxTickets == 4

-----------------------------------------------------------------------------
(* Python values *)

None == [py |-> "None"]

Str(s) == [py |-> "str", v |-> s]

Dict(d) == [py |-> "dict", v |-> d]

List(l) == [py |-> "list", v |-> l]

PyInt(n) == [py |-> "int", v |-> n]

\* A gateway answer that the turn's code path never reads.
Unset == [py |-> "unset"]

EmptyDict == [k \in {} |-> <<>>]

isinstance(x, t) == x.py = t

\* Python truth value of a tagged value.
Truthy(x) ==
    CASE x.py = "None" -> FALSE
      [] x.py = "dict" -> DOMAIN x.v # {}
      [] x.py = "list" -> x.v # <<>>
      [] x.py = "int" -> x.v # 0
      [] x.py = "str" -> IF "v" \in DOMAIN x THEN x.v # <<>> ELSE TRUE
      [] OTHER -> TRUE

\* dict.get(key, default) on an untagged dict.
Get(d, key, default) == IF key \in DOMAIN d THEN d[key] ELSE default

\* {**d, key: value}
Put(d, key, value) == [k \in DOMAIN d \cup {key} |-> IF k = key THEN value ELSE d[k]]

Min(a, b) == IF a < b THEN a ELSE b

\* seq[:n]
Take(seq, n) == SubSeq(seq, 1, Min(n, Len(seq)))

-----------------------------------------------------------------------------
(* Python strings *)

UpperCase ==
    <<"A", "B", "C", "D", "E", "F", "G", "H", "I", "J", "K", "L", "M",
      "N", "O", "P", "Q", "R", "S", "T", "U", "V", "W", "X", "Y", "Z">>

LowerCase ==
    <<"a", "b", "c", "d", "e", "f", "g", "h", "i", "j", "k", "l", "m",
      "n", "o", "p", "q", "r", "s", "t", "u", "v", "w", "x", "y", "z">>

LowerChar(c) ==
    IF \E i \in 1..26 : UpperCase[i] = c
    THEN LowerCase[CHOOSE i \in 1..26 : UpperCase[i] = c]
    ELSE c

lower(s) == [i \in 1..Len(s) |-> LowerChar(s[i])]

Whitespace == {" "}

RECURSIVE lstrip(_)
lstrip(s) == IF s # <<>> /\ Head(s) \in Whitespace THEN lstrip(Tail(s)) ELSE s

RECURSIVE rstrip(_)
rstrip(s) ==
    IF s # <<>> /\ s[Len(s)] \in Whitespace THEN rstrip(SubSeq(s, 1, Len(s) - 1)) ELSE s

strip(s) == rstrip(lstrip(s))

\* Python's `needle in hay` for strings.
Contains(hay, needle) ==
    \E i \in 0..(Len(hay) - Len(needle)) : SubSeq(hay, i + 1, i + Len(needle)) = needle

Digits == {"0", "1", "2", "3", "4", "5", "6", "7", "8", "9"}

Letters == {UpperCase[i] : i \in 1..26} \cup {LowerCase[i] : i \in 1..26}

DigitChar == <<"0", "1", "2", "3", "4", "5", "6", "7", "8", "9">>

\* str(n) for n >= 0.
RECURSIVE IntToStr(_)
IntToStr(n) == IF n < 10 THEN <<DigitChar[n + 1]>> ELSE IntToStr(n \div 10) \o <<DigitChar[(n % 10) + 1]>>

-----------------------------------------------------------------------------
(* StageManager *)

stage_contexts ==
    [s \in {"main", "create", "edit", "confirmation", "update_confirmation", "correct",
            "1_ci_data", "multiple_ci_data", "updating_ticket", "edit_confirmation"} |-> "context"]

StageIds == DOMAIN stage_contexts

StageManager_init ==
    [current_stage |-> "main", previous_stage |-> None,
     pending_ticket_data |-> None, pending_ci_data |-> None]

switch_stage_unchecked(sm, new_stage) ==
    [sm EXCEPT !.previous_stage = [py |-> "str", v |-> sm.current_stage],
               !.current_stage = new_stage]

switch_stage(sm, new_stage) ==
    IF new_stage \notin DOMAIN stage_contexts
    THEN sm
    ELSE [sm EXCEPT !.previous_stage = [py |-> "str", v |-> sm.current_stage],
                    !.current_stage = new_stage]

\* The value switch_stage returns.
switch_stage_returns(sm, new_stage) == new_stage \in DOMAIN stage_contexts

store_ticket_data(sm, ticket_data) == [sm EXCEPT !.pending_ticket_data = ticket_data]

get_stored_ticket_data(sm) ==
    IF Truthy(sm.pending_ticket_data) THEN sm.pending_ticket_data ELSE Dict(EmptyDict)

clear_ticket_data_skipped(sm) == sm

clear_ticket_data(sm) == [sm EXCEPT !.pending_ticket_data = None]

store_ci_data(sm, ci_data) == [sm EXCEPT !.pending_ci_data = ci_data]

get_stored_ci_data(sm) ==
    IF Truthy(sm.pending_ci_data) THEN sm.pending_ci_data ELSE None

clear_ci_data(sm) == [sm EXCEPT !.pending_ci_data = None]

reset_to_main_keeps_data(sm) == switch_stage(sm, "main")

reset_to_main(sm) == clear_ci_data(clear_ticket_data(switch_stage(sm, "main")))

-----------------------------------------------------------------------------
(* The remote ticketing API: what make_api_request can hand back           *)
(* (None after a 404 or exhausted retries, else the decoded JSON body).    *)

SerialOf(i) == <<"1", "2", DigitChar[((i + 2) % 10) + 1]>>

\* The i-th configuration item; every second one is keyed in lower case,
\* the spelling the handlers fall back to.
CI(i) ==
    IF i % 2 = 1
    THEN [SerialNum |-> SerialOf(i), Name |-> <<"a", "t", "m">>, Location |-> <<"h", "n">>]
    ELSE [serial_number |-> SerialOf(i), name |-> <<"p", "c">>, location |-> <<>>]

TicketId(i) == <<"T", DigitChar[(i % 10) + 1]>>

TicketOpen(i) == [ticketid |-> TicketId(i), status |-> <<"O", "p", "e", "n">>]

TicketResolved(i) ==
    [ticketid |-> TicketId(i), status |-> <<"R", "e", "s", "o", "l", "v", "e", "d">>]

TicketNoStatus(i) == [ticketid |-> TicketId(i)]

\* The None make_api_request returns when its attempts are used up.  To the
\* caller it is the None of a 404; the mark tells the two apart in a turn's log.
GaveUp == [py |-> "None", gave_up |-> TRUE]

FindCiResponses ==
    {None, GaveUp, Dict(CI(1))} \cup {List([i \in 1..n |-> CI(i)]) : n \in {0, 1, 2, MaxCI}}

TicketsBySnResponses ==
    {None, List(<<>>), Dict(TicketOpen(1)), List(<<TicketResolved(1)>>),
     List(<<TicketNoStatus(1)>>), List(<<TicketResolved(1), TicketOpen(2)>>),
     List([i \in 1..MaxTickets |-> TicketOpen(i)])}

CreateTicketResponses ==
    {None, PyInt(70),
     Dict([ticket_num |-> TicketId(9), response_code |-> 200]),
     Dict([ticketid |-> TicketId(8), response_code |-> 200]),
     Dict([ticket_num |-> TicketId(9), response_code |-> 500])}

TicketByIdResponses ==
    {None, Dict(TicketOpen(1)), List(<<TicketOpen(1)>>), List(<<>>), Dict(EmptyDict)}

UpdateTicketResponses ==
    {None, Dict([response_code |-> 200]), Dict([response_code |-> 500]), List(<<>>)}

-----------------------------------------------------------------------------
(* api_call.py: each operation applied to the answer `http` of its request *)

STATUS_SUCCESS == 200

\* True when the operation gets as far as its HTTP request.
Requests(op, args) ==
    CASE op = "post_create_ticket" -> TRUE
      [] op = "post_update_ticket" ->
            ~(args[1] = <<>> \/ strip(args[1]) = <<>>) /\ DOMAIN args[2] # {}
      [] OTHER -> ~(args[1] = <<>> \/ strip(args[1]) = <<>>)

get_ci_with_sn(serial_number, http) ==
    IF serial_number = <<>> \/ strip(serial_number) = <<>> THEN None
    ELSE IF http.py = "None" THEN None
    ELSE IF isinstance(http, "dict") THEN List(<<http.v>>)
    ELSE IF isinstance(http, "list") THEN http
    ELSE None

get_all_ticket_for_sn(serial_number, http) ==
    IF serial_number = <<>> \/ strip(serial_number) = <<>> THEN None
    ELSE IF http.py = "None" THEN None
    ELSE IF isinstance(http, "dict") THEN List(<<http.v>>)
    ELSE IF isinstance(http, "list") THEN http
    ELSE None

post_create_ticket(serial_number, summary, http) ==
    IF http.py = "None" THEN None
    ELSE IF isinstance(http, "int") THEN Str(IntToStr(http.v))
    ELSE IF isinstance(http, "dict") THEN
        LET ticket_id ==
                IF Get(http.v, "ticket_num", <<>>) # <<>>
                THEN Get(http.v, "ticket_num", <<>>)
                ELSE Get(http.v, "ticketid", <<>>)
            response_code == Get(http.v, "response_code", 0)
        IN  IF response_code = STATUS_SUCCESS /\ ticket_id # <<>>
            THEN Str(ticket_id)
            ELSE None
    ELSE None

get_ticket_by_id(ticket_id, http) ==
    IF ticket_id = <<>> \/ strip(ticket_id) = <<>> THEN None
    ELSE IF http.py = "None" THEN None
    ELSE IF isinstance(http, "list") THEN
        IF Len(http.v) > 0 THEN Dict(http.v[1]) ELSE None
    ELSE http

post_update_ticket(ticket_id, update_data, http) ==
    IF ticket_id = <<>> \/ strip(ticket_id) = <<>> THEN None
    ELSE IF DOMAIN update_data = {} THEN None
    ELSE IF Truthy(http) /\ isinstance(http, "dict")
            /\ Get(http.v, "response_code", 0) = STATUS_SUCCESS THEN http
    ELSE None

\* One entry of a turn's gateway log.
\* `http` is the remote answer the operation consumed (Unset when it issued no request).
Call(op, args, requested, http, result) ==
    [op |-> op, args |-> args, requested |-> requested,
     http |-> IF requested THEN http ELSE Unset, result |-> result]

-----------------------------------------------------------------------------
(* What a handler hands back: the StageManager as it left it, the pair     *)
(* (response, summary) it returns, the gateway operations it ran, and      *)
(* whether an exception was raised (and caught) on the way.                *)

Ret(sm, response, summary, calls) ==
    [sm |-> sm, response |-> response, summary |-> summary, calls |-> calls, raised |-> FALSE]

Caught(r) == [r EXCEPT !.raised = TRUE]

\* A reply the code builds itself: `msg` names the template, `data` what it renders.
Msg(name, data) == [py |-> "str", msg |-> name, data |-> data]

IsMsg(response, name) == "msg" \in DOMAIN response /\ response.msg = name

-----------------------------------------------------------------------------
(* creating_part/create.py *)

REQUIRED_TICKET_FIELDS == <<"serial_number", "device_type", "problem_description">>

NotProvided == <<"C", "h", "u", "a", " ", "c", "o">>

_handle_creation_error(sm) == Ret(sm, Msg("creation_error", EmptyDict), "thoat", <<>>)

_handle_ticket_creation_error(sm, calls) ==
    Ret(sm, Msg("ticket_creation_error", EmptyDict), "thoat", calls)

_handle_cancel_ticket_creation(sm) ==
    Ret(sm, Msg("ticket_creation_cancelled", EmptyDict), "thoat", <<>>)

_handle_confirmation_correct(sm) ==
    IF Truthy(get_stored_ticket_data(sm))
    THEN Ret(sm, Msg("confirmed_will_create", EmptyDict), "dung", <<>>)
    ELSE Ret(sm, Msg("need_ticket_info", EmptyDict), "tao ticket", <<>>)

_handle_confirmation_wrong(sm) ==
    IF Truthy(get_stored_ticket_data(sm))
    THEN Ret(clear_ticket_data(sm), Msg("provide_info_again", EmptyDict), "tao ticket", <<>>)
    ELSE Ret(sm, Msg("need_ticket_info", EmptyDict), "tao ticket", <<>>)

_handle_switch_to_edit(sm) == Ret(sm, Msg("switched_to_edit", EmptyDict), "sua ticket", <<>>)

_handle_exit_request(sm) == Ret(sm, Msg("goodbye_create", EmptyDict), "thoat", <<>>)

_handle_informational_response_exits(sm, response_text, summary) ==
    Ret(sm, response_text, "thoat", <<>>)

_handle_informational_response(sm, response_text, summary) ==
    Ret(sm, response_text, IF summary # "" THEN summary ELSE "tao ticket", <<>>)

_handle_unexpected_response(sm) ==
    Ret(sm, Msg("unexpected_response", EmptyDict), "tao ticket", <<>>)

_normalize_ticket_data(ticket_data) ==
    [serial_number |-> strip(Get(ticket_data, "serial_number", <<>>)),
     device_type |-> lower(strip(Get(ticket_data, "device_type", <<>>))),
     problem_description |-> strip(Get(ticket_data, "problem_description", <<>>))]

validate_ticket_data_untrimmed(ticket_data) ==
    LET IsMissing(field) == Get(ticket_data, field, <<>>) = <<>>
        missing_fields == SelectSeq(REQUIRED_TICKET_FIELDS, IsMissing)
    IN  [is_complete |-> Len(missing_fields) = 0, missing_fields |-> missing_fields]

validate_ticket_data(ticket_data) ==
    LET IsMissing(field) ==
            LET value == Get(ticket_data, field, <<>>)
            IN  value = <<>> \/ strip(value) = <<>>
        missing_fields == SelectSeq(REQUIRED_TICKET_FIELDS, IsMissing)
    IN  [is_complete |-> Len(missing_fields) = 0, missing_fields |-> missing_fields]

suspicious_patterns ==
    {<<"t", "e", "s", "t">>, <<"d", "u", "m", "m", "y">>, <<"f", "a", "k", "e">>,
     <<"x", "x", "x">>, <<"0", "0", "0", "0", "0", "0">>}

_contains_suspicious_content(ticket_data) ==
    \E k \in DOMAIN ticket_data :
        /\ \E pattern \in suspicious_patterns : Contains(lower(ticket_data[k]), pattern)
        /\ Len(strip(ticket_data[k])) < 5

_validate_business_rules_any_serial(ticket_data) ==
    IF _contains_suspicious_content(ticket_data)
    THEN [valid |-> FALSE, message |-> "invalid_information"]
    ELSE [valid |-> TRUE, message |-> ""]

_validate_business_rules(ticket_data) ==
    IF Len(Get(ticket_data, "serial_number", <<>>)) < 3
    THEN [valid |-> FALSE, message |-> "serial_too_short"]
    ELSE IF _contains_suspicious_content(ticket_data)
    THEN [valid |-> FALSE, message |-> "invalid_information"]
    ELSE [valid |-> TRUE, message |-> ""]

format_ticket_confirmation(ticket_data) ==
    Msg("ticket_confirmation",
        [serial_number |-> Get(ticket_data, "serial_number", NotProvided),
         device_type |-> Get(ticket_data, "device_type", NotProvided),
         problem_description |-> Get(ticket_data, "problem_description", NotProvided)])

_handle_complete_ticket_data(ticket_data, sm) ==
    LET validation_result == _validate_business_rules(ticket_data)
    IN  IF ~validation_result.valid
        THEN Ret(sm, Msg(validation_result.message, EmptyDict), "tao ticket", <<>>)
        ELSE Ret(store_ticket_data(sm, Dict(ticket_data)),
                 format_ticket_confirmation(ticket_data), "cho xac nhan", <<>>)

_handle_incomplete_ticket_data(sm, missing_fields) ==
    Ret(sm, Msg("missing_fields", [missing_fields |-> missing_fields]), "tao ticket", <<>>)

_process_ticket_data(ticket_data, sm) ==
    LET normalized_data == _normalize_ticket_data(ticket_data)
        validation == validate_ticket_data(normalized_data)
    IN  IF validation.is_complete
        THEN _handle_complete_ticket_data(normalized_data, sm)
        ELSE _handle_incomplete_ticket_data(sm, validation.missing_fields)

handle_create_stage(response_text, summary, sm) ==
    IF summary = "dung" THEN _handle_confirmation_correct(sm)
    ELSE IF summary = "sai" THEN _handle_confirmation_wrong(sm)
    ELSE IF summary = "sua ticket" THEN _handle_switch_to_edit(sm)
    ELSE IF summary = "thoat" THEN _handle_exit_request(sm)
    ELSE IF isinstance(response_text, "dict") THEN _process_ticket_data(response_text.v, sm)
    ELSE IF isinstance(response_text, "str")
    THEN _handle_informational_response(sm, response_text, summary)
    ELSE _handle_unexpected_response(sm)

(* create.py: database and API integration *)

UnknownDevice == <<"U", "n", "k", "n", "o", "w", "n", " ", "D", "e", "v", "i", "c", "e">>

NotAvailable == <<"N", "/", "A">>

\* ci.get('SerialNum', ci.get('serial_number', default))
CiSerial(ci, default) == Get(ci, "SerialNum", Get(ci, "serial_number", default))

\* ci.get('Name', ci.get('name', 'Unknown Device'))
CiName(ci) == Get(ci, "Name", Get(ci, "name", UnknownDevice))

check_ticket_on_database(ticket_data, g) ==
    LET serial_number == Get(ticket_data, "serial_number", <<>>)
        ci_data == get_ci_with_sn(serial_number, g.find_ci)
    IN  IF serial_number = <<>>
        THEN [ci_data |-> <<>>, calls |-> <<>>]
        ELSE [ci_data |-> IF Truthy(ci_data) THEN ci_data.v ELSE <<>>,
              calls |-> <<Call("get_ci_with_sn", <<serial_number>>,
                               Requests("get_ci_with_sn", <<serial_number>>),
                               g.find_ci, ci_data)>>]

direct_summary_without_check(ticket_data) ==
    ticket_data.device_type \o <<" ">> \o ticket_data.problem_description

\* The summary _create_ticket_directly sends: the device type is put in front
\* of the problem description unless the description already holds it.
direct_summary(ticket_data) ==
    IF ~Contains(ticket_data.problem_description, ticket_data.device_type)
    THEN ticket_data.device_type \o <<" ">> \o ticket_data.problem_description
    ELSE ticket_data.problem_description

_create_ticket_directly(ticket_data, sm, g, calls) ==
    IF ~({"device_type", "problem_description", "serial_number"} \subseteq DOMAIN ticket_data)
    THEN Caught(_handle_ticket_creation_error(sm, calls))
    ELSE
        LET summary == direct_summary(ticket_data)
            ticket_id == post_create_ticket(ticket_data.serial_number, summary, g.create_ticket)
            calls1 == Append(calls, Call("post_create_ticket",
                                         <<ticket_data.serial_number, summary>>,
                                         TRUE, g.create_ticket, ticket_id))
        IN  IF Truthy(ticket_id)
            THEN Ret(sm, Msg("ticket_created", [ticket_id |-> ticket_id.v]), "thoat", calls1)
            ELSE _handle_ticket_creation_error(sm, calls1)

_create_ticket_with_ci_data(ticket_data, ci_data, sm, g, calls) ==
    LET serial_number == CiSerial(ci_data, Get(ticket_data, "serial_number", <<>>))
        device_name == CiName(ci_data)
        problem == Get(ticket_data, "problem_description", NotAvailable)
        ticket_id == post_create_ticket(serial_number, problem, g.create_ticket)
        calls1 == Append(calls, Call("post_create_ticket", <<serial_number, problem>>,
                                     TRUE, g.create_ticket, ticket_id))
    IN  IF Truthy(ticket_id)
        THEN Ret(reset_to_main(sm),
                 Msg("ticket_created_for_device",
                     [ticket_id |-> ticket_id.v, device_name |-> device_name,
                      serial_number |-> serial_number, problem_description |-> problem]),
                 "thoat", calls1)
        ELSE _handle_ticket_creation_error(sm, calls1)

TerminalStatuses ==
    {<<"r", "e", "s", "o", "l", "v", "e", "d">>, <<"c", "l", "o", "s", "e", "d">>,
     <<"c", "a", "n", "c", "e", "l", "l", "e", "d">>}

IsActiveTicket_inverted(ticket) == lower(Get(ticket, "status", <<>>)) \in TerminalStatuses

IsActiveTicket(ticket) == lower(Get(ticket, "status", <<>>)) \notin TerminalStatuses

_handle_single_ci_data_processing(ci_data, ticket_data, sm, g, calls) ==
    LET serial_number == CiSerial(ci_data, <<>>)
        device_name == CiName(ci_data)
        existing_tickets == get_all_ticket_for_sn(serial_number, g.tickets_by_sn)
        calls1 == Append(calls, Call("get_all_ticket_for_sn", <<serial_number>>,
                                     Requests("get_all_ticket_for_sn", <<serial_number>>),
                                     g.tickets_by_sn, existing_tickets))
        active_tickets == SelectSeq(existing_tickets.v, IsActiveTicket)
        shown == Take(active_tickets, 3)
    IN  IF Truthy(existing_tickets)
        THEN IF active_tickets # <<>>
             THEN Ret(switch_stage(store_ci_data(sm, List(<<ci_data>>)), "1_ci_data"),
                      Msg("active_tickets_warning",
                          [device_name |-> device_name, serial_number |-> serial_number,
                           tickets |-> [i \in 1..Len(shown) |->
                                           [ticket_id |-> Get(shown[i], "ticketid", NotAvailable),
                                            status |-> Get(shown[i], "status", NotAvailable)]]]),
                      "1_ci_data", calls1)
             ELSE _create_ticket_with_ci_data(ticket_data, ci_data, sm, g, calls1)
        ELSE _handle_ticket_creation_error(sm, calls1)

shown_ci_data_uncapped(ci_data_list) == ci_data_list

\* ci_data_list[:5]
shown_ci_data(ci_data_list) == Take(ci_data_list, 5)

_handle_multiple_ci_data_display(sm, ci_data_list, calls) ==
    LET shown == shown_ci_data(ci_data_list)
    IN  Ret(sm,
            Msg("multiple_ci_list",
                [ci_info |-> [i \in 1..Len(shown) |->
                                 [index |-> i,
                                  name |-> Get(shown[i], "Name", Get(shown[i], "name", NotAvailable)),
                                  serial |-> CiSerial(shown[i], NotAvailable),
                                  location |-> Get(shown[i], "Location",
                                                   Get(shown[i], "location", <<>>))]],
                 example |-> Get(ci_data_list[1], "SerialNum",
                                 <<"1", "2", "3", "4", "5", "6">>)]),
            "multiple_ci_data", calls)

_process_ticket_creation(ticket_data, sm, g) ==
    LET looked_up == check_ticket_on_database(ticket_data, g)
        ci_data == looked_up.ci_data
    IN  IF ci_data = <<>>
        THEN _create_ticket_directly(ticket_data, sm, g, looked_up.calls)
        ELSE IF Len(ci_data) = 1
        THEN _handle_single_ci_data_processing(ci_data[1], ticket_data, sm, g, looked_up.calls)
        ELSE _handle_multiple_ci_data_display(
                 switch_stage(store_ci_data(sm, List(ci_data)), "multiple_ci_data"),
                 ci_data, looked_up.calls)

(* create.py: update handling and the stage handlers *)

UpdatableFields == {"serial_number", "device_type", "problem_description"}

update_ticket_data(current_data, update_data) ==
    IF ~isinstance(update_data, "dict") THEN current_data
    ELSE IF {"field_to_update", "new_value"} \subseteq DOMAIN update_data.v
    THEN IF update_data.v["field_to_update"] \in UpdatableFields
         THEN Put(current_data, update_data.v["field_to_update"], update_data.v["new_value"])
         ELSE current_data
    ELSE [k \in DOMAIN current_data \cup (DOMAIN update_data.v \cap UpdatableFields) |->
             IF k \in DOMAIN update_data.v \cap UpdatableFields
             THEN update_data.v[k] ELSE current_data[k]]

RECURSIVE _handle_create_stage_routing(_, _, _, _)

\* The updated ticket is stored and the conversation goes back to confirmation,
\* but the reply does not show the ticket again.
_update_ticket_data_not_shown_again(sm, update_data, summary, g) ==
    LET current_ticket_data == get_stored_ticket_data(sm)
        updated_ticket_data == update_ticket_data(current_ticket_data.v, update_data)
    IN  IF ~Truthy(current_ticket_data)
        THEN Ret(sm, Msg("no_ticket_data_to_update", EmptyDict), "thoat", <<>>)
        ELSE Ret(switch_stage(store_ticket_data(sm, Dict(updated_ticket_data)),
                              "confirmation"),
                 Msg("ticket_updated", EmptyDict), "cho xac nhan", <<>>)

_update_ticket_data(sm, update_data, summary, g) ==
    LET current_ticket_data == get_stored_ticket_data(sm)
        updated_ticket_data == update_ticket_data(current_ticket_data.v, update_data)
        confirmation_response == format_ticket_confirmation(updated_ticket_data)
    IN  IF ~Truthy(current_ticket_data)
        THEN Ret(sm, Msg("no_ticket_data_to_update", EmptyDict), "thoat", <<>>)
        ELSE _handle_create_stage_routing(
                 switch_stage(store_ticket_data(sm, Dict(updated_ticket_data)), "create"),
                 confirmation_response, "cho xac nhan", g)

_handle_update_confirmation_stage(sm, response_text, summary, g) ==
    IF summary = "cap nhat thong tin" THEN _update_ticket_data(sm, response_text, summary, g)
    ELSE IF summary = "thoat" THEN Ret(reset_to_main(sm), response_text, "thoat", <<>>)
    ELSE Ret(sm, response_text, summary, <<>>)

_handle_correct_stage(sm, response_text, summary, g) ==
    IF summary = "dang xu ly" THEN
        LET ticket_data == get_stored_ticket_data(sm)
        IN  IF Truthy(ticket_data)
            THEN _process_ticket_creation(ticket_data.v, sm, g)
            ELSE _handle_ticket_creation_error(sm, <<>>)
    ELSE IF summary = "hoan thanh" THEN
        Ret(reset_to_main(sm), response_text, "ticket da duoc tao", <<>>)
    ELSE IF summary = "thoat" THEN Ret(reset_to_main(sm), response_text, summary, <<>>)
    ELSE Ret(sm, response_text, summary, <<>>)

_handle_confirmation_stage(sm, response_text, summary, g) ==
    IF isinstance(response_text, "dict") THEN
        _handle_update_confirmation_stage(switch_stage(sm, "update_confirmation"),
                                          response_text, summary, g)
    ELSE IF summary = "dung" THEN
        _handle_correct_stage(switch_stage(sm, "correct"), response_text, "dang xu ly", g)
    ELSE IF summary = "sai" THEN
        Ret(clear_ticket_data(switch_stage(sm, "create")), response_text, "tao ticket", <<>>)
    ELSE IF summary = "thoat" THEN Ret(reset_to_main(sm), response_text, "thoat", <<>>)
    ELSE Ret(sm, response_text, "cho xac nhan", <<>>)

_handle_single_ci_data_stage_keeping_data(sm, response_text, summary, g) ==
    IF summary = "tao" THEN
        LET ticket_data == get_stored_ticket_data(sm)
            ci_data == get_stored_ci_data(sm)
        IN  IF Truthy(ticket_data) /\ Truthy(ci_data)
            THEN _create_ticket_with_ci_data(ticket_data.v, ci_data.v[1], sm, g, <<>>)
            ELSE _handle_ticket_creation_error(sm, <<>>)
    ELSE IF summary = "Khong tao" THEN _handle_cancel_ticket_creation(sm)
    ELSE IF summary = "thoat" THEN Ret(reset_to_main(sm), response_text, "thoat", <<>>)
    ELSE Ret(sm, response_text, summary, <<>>)

_handle_single_ci_data_stage(sm, response_text, summary, g) ==
    IF summary = "tao" THEN
        LET ticket_data == get_stored_ticket_data(sm)
            ci_data == get_stored_ci_data(sm)
        IN  IF Truthy(ticket_data) /\ Truthy(ci_data)
            THEN _create_ticket_with_ci_data(ticket_data.v, ci_data.v[1], sm, g, <<>>)
            ELSE _handle_ticket_creation_error(sm, <<>>)
    ELSE IF summary = "Khong tao" THEN _handle_cancel_ticket_creation(reset_to_main(sm))
    ELSE IF summary = "thoat" THEN Ret(reset_to_main(sm), response_text, "thoat", <<>>)
    ELSE Ret(sm, response_text, summary, <<>>)

\* ci.get('SerialNum') == serial_number or ci.get('serial_number') == serial_number
CiMatches(ci, serial_number) ==
    /\ isinstance(serial_number, "str") /\ "v" \in DOMAIN serial_number
    /\ \/ "SerialNum" \in DOMAIN ci /\ ci["SerialNum"] = serial_number.v
       \/ "serial_number" \in DOMAIN ci /\ ci["serial_number"] = serial_number.v

_handle_multiple_ci_data_stage_first_candidate(sm, response_text, summary, g) ==
    IF summary = "kiem tra serial number" THEN
        LET ci_data_list == get_stored_ci_data(sm)
            matching == {i \in 1..Len(ci_data_list.v) : CiMatches(ci_data_list.v[i], response_text)}
            selected_ci == ci_data_list.v[1]
            ticket_data == get_stored_ticket_data(sm)
        IN  IF ~Truthy(ci_data_list) THEN _handle_ticket_creation_error(sm, <<>>)
            ELSE IF matching = {}
            THEN Ret(sm, Msg("serial_not_in_list", EmptyDict), "multiple_ci_data", <<>>)
            ELSE IF Truthy(ticket_data)
            THEN _handle_single_ci_data_processing(selected_ci, ticket_data.v, sm, g, <<>>)
            ELSE _handle_ticket_creation_error(sm, <<>>)
    ELSE IF summary = "Khong tao" THEN _handle_cancel_ticket_creation(reset_to_main(sm))
    ELSE IF summary = "thoat" THEN Ret(reset_to_main(sm), response_text, "thoat", <<>>)
    ELSE Ret(sm, response_text, summary, <<>>)

_handle_multiple_ci_data_stage(sm, response_text, summary, g) ==
    IF summary = "kiem tra serial number" THEN
        LET ci_data_list == get_stored_ci_data(sm)
            matching == {i \in 1..Len(ci_data_list.v) : CiMatches(ci_data_list.v[i], response_text)}
            selected_ci == ci_data_list.v[CHOOSE i \in matching : \A j \in matching : i <= j]
            ticket_data == get_stored_ticket_data(sm)
        IN  IF ~Truthy(ci_data_list) THEN _handle_ticket_creation_error(sm, <<>>)
            ELSE IF matching = {}
            THEN Ret(sm, Msg("serial_not_in_list", EmptyDict), "multiple_ci_data", <<>>)
            ELSE IF Truthy(ticket_data)
            THEN _handle_single_ci_data_processing(selected_ci, ticket_data.v, sm, g, <<>>)
            ELSE _handle_ticket_creation_error(sm, <<>>)
    ELSE IF summary = "Khong tao" THEN _handle_cancel_ticket_creation(reset_to_main(sm))
    ELSE IF summary = "thoat" THEN Ret(reset_to_main(sm), response_text, "thoat", <<>>)
    ELSE Ret(sm, response_text, summary, <<>>)

-----------------------------------------------------------------------------
(* utils.py: routing of the create flow *)

_handle_create_stage_routing(sm, response_text, summary, g) ==
    LET handled == handle_create_stage(response_text, summary, sm)
    IN  IF handled.summary = "dung" /\ Truthy(get_stored_ticket_data(handled.sm))
        THEN _handle_confirmation_stage(switch_stage(handled.sm, "confirmation"),
                                        handled.response, handled.summary, g)
        ELSE IF handled.summary = "cho xac nhan"
        THEN [handled EXCEPT !.sm = switch_stage(handled.sm, "confirmation")]
        ELSE IF handled.summary \in {"thoat", "sua ticket"}
        THEN [handled EXCEPT !.sm = reset_to_main(handled.sm)]
        ELSE handled

-----------------------------------------------------------------------------
(* editing_part/edit.py *)

AllDigits(s) == s # <<>> /\ \A i \in 1..Len(s) : s[i] \in Digits

\* re.match against TICKET_ID_PATTERNS with re.IGNORECASE
MatchesTicketIdPattern(s) ==
    \/ Len(s) >= 3 /\ lower(SubSeq(s, 1, 2)) = <<"t", "k">> /\ AllDigits(SubSeq(s, 3, Len(s)))
    \/ AllDigits(s)
    \/ Len(s) >= 3 /\ s[1] \in Letters /\ s[2] \in Letters /\ AllDigits(SubSeq(s, 3, Len(s)))

\* s.replace('-', '').replace('_', '').isalnum()
IsAlnumIgnoringDashes(s) ==
    LET kept == SelectSeq(s, LAMBDA c : c \notin {"-", "_"})
    IN  kept # <<>> /\ \A i \in 1..Len(kept) : kept[i] \in Letters \cup Digits

_is_valid_ticket_id_format(ticket_id) ==
    IF ticket_id = <<>> THEN FALSE
    ELSE MatchesTicketIdPattern(strip(ticket_id)) \/ IsAlnumIgnoringDashes(strip(ticket_id))

validate_ticket_id(ticket_info) ==
    LET missing_fields ==
            IF "ticket_id" \notin DOMAIN ticket_info THEN <<"ticket_id">>
            ELSE IF ~_is_valid_ticket_id_format(ticket_info["ticket_id"])
            THEN <<"invalid_ticket_id_format">>
            ELSE <<>>
    IN  [is_valid |-> Len(missing_fields) = 0, missing_fields |-> missing_fields]

\* edit.py is stored with its UTF-8 text decoded as Mac Roman, so each of its
\* literals that holds a non-ASCII letter is another string than the label the
\* rest of the program writes: the label 'thoat' of utils.py and create.py is
\* seven characters long in edit.py. MacRoman(s) is the literal edit.py holds
\* where the label s was typed; 'sai' and the stage names are ASCII and the same
\* in every file.
MacRoman(s) == "MacRoman:" \o s

_handle_edit_error(sm, calls) == Ret(sm, Msg("edit_error", EmptyDict), MacRoman("thoat"), calls)

_handle_switch_to_create(sm) == Ret(sm, Msg("switched_to_create", EmptyDict), MacRoman("tao ticket"), <<>>)

_handle_edit_exit_request(sm) == Ret(sm, Msg("goodbye_edit", EmptyDict), MacRoman("thoat"), <<>>)

_handle_edit_informational_response(sm, response_text, summary) ==
    Ret(sm, response_text, IF summary # "" THEN summary ELSE MacRoman("sua ticket"), <<>>)

_handle_edit_unexpected_response(sm) ==
    Ret(sm, Msg("edit_unexpected_response", EmptyDict), MacRoman("sua ticket"), <<>>)

_handle_incomplete_ticket_id(sm, missing_fields) ==
    Ret(sm, Msg("incomplete_ticket_id", [missing_field |-> missing_fields[1]]), MacRoman("sua ticket"), <<>>)

_handle_ticket_not_found(sm, ticket_id, calls) ==
    Ret(sm, Msg("ticket_not_found", [ticket_id |-> ticket_id]), MacRoman("thoat"), calls)

_handle_update_api_error(sm, ticket_id, calls) ==
    Ret(sm, Msg("update_api_error", [ticket_id |-> ticket_id]), MacRoman("thoat"), calls)

_format_ticket_info(ticket) ==
    [ticket_id |-> Get(ticket, "ticketid", Get(ticket, "id", NotAvailable)),
     status |-> Get(ticket, "status", NotAvailable)]

_display_and_request_update(sm, ticket, ticket_id, calls) ==
    Ret(sm, Msg("ticket_info_request_update",
                [ticket_id |-> ticket_id, ticket_info |-> _format_ticket_info(ticket)]),
        MacRoman("cho thong tin cap nhat"), calls)

_retrieve_ticket_for_editing(ticket_id, sm, g) ==
    LET ticket_data == get_ticket_by_id(ticket_id, g.ticket_by_id)
        calls == <<Call("get_ticket_by_id", <<ticket_id>>,
                        Requests("get_ticket_by_id", <<ticket_id>>), g.ticket_by_id, ticket_data)>>
    IN  IF ~Truthy(ticket_data)
        THEN _handle_ticket_not_found(sm, ticket_id, calls)
        ELSE _display_and_request_update(
                 switch_stage(
                     store_ticket_data(sm, Dict([ticket_id |-> ticket_id,
                                                 ticket_info |-> ticket_data.v])),
                     "updating_ticket"),
                 ticket_data.v, ticket_id, calls)

_process_ticket_id_input(ticket_info, sm, g) ==
    LET validation == validate_ticket_id(ticket_info)
    IN  IF validation.is_valid
        THEN _retrieve_ticket_for_editing(Get(ticket_info, "ticket_id", <<>>), sm, g)
        ELSE _handle_incomplete_ticket_id(sm, validation.missing_fields)

handle_edit_stage(response_text, summary, sm, g) ==
    IF summary = MacRoman("tao ticket") THEN _handle_switch_to_create(sm)
    ELSE IF summary = MacRoman("thoat") THEN _handle_edit_exit_request(sm)
    ELSE IF isinstance(response_text, "dict") THEN _process_ticket_id_input(response_text.v, sm, g)
    ELSE IF isinstance(response_text, "str")
    THEN _handle_edit_informational_response(sm, response_text, summary)
    ELSE _handle_edit_unexpected_response(sm)

_display_update_confirmation(sm, ticket_id, update_data) ==
    Ret(sm, Msg("update_confirmation", [ticket_id |-> ticket_id, update_data |-> update_data]),
        MacRoman("cho xac nhan cap nhat edit"), <<>>)

_process_update_data(update_data, sm) ==
    LET stored_data == get_stored_ticket_data(sm)
    IN  IF ~Truthy(stored_data) \/ "ticket_id" \notin DOMAIN stored_data.v
        THEN _handle_edit_error(sm, <<>>)
        ELSE _display_update_confirmation(
                 switch_stage(
                     store_ticket_data(sm, Dict(Put(stored_data.v, "update_data", update_data))),
                     "edit_confirmation"),
                 stored_data.v["ticket_id"], update_data)

handle_updating_ticket_stage(sm, response_text, summary) ==
    IF summary = MacRoman("thoat") THEN _handle_edit_exit_request(clear_ticket_data(sm))
    ELSE IF isinstance(response_text, "dict") /\ summary = MacRoman("cap nhat ticket")
    THEN _process_update_data(response_text.v, sm)
    ELSE IF isinstance(response_text, "str") THEN
        IF summary = MacRoman("cho thong tin cap nhat") THEN
            LET stored_data == get_stored_ticket_data(sm).v
            IN  IF ~({"ticket_info", "ticket_id"} \subseteq DOMAIN stored_data)
                THEN Caught(_handle_edit_error(sm, <<>>))
                ELSE Ret(sm,
                         Msg("text_then_ticket_info",
                             [text |-> response_text,
                              ticket_id |-> stored_data["ticket_id"],
                              ticket_info |-> _format_ticket_info(stored_data["ticket_info"])]),
                         MacRoman("cho thong tin cap nhat"), <<>>)
        ELSE _handle_edit_informational_response(sm, response_text, summary)
    ELSE _handle_edit_unexpected_response(sm)

_execute_ticket_update(ticket_id, update_data, sm, g) ==
    LET result == post_update_ticket(ticket_id, update_data, g.update_ticket)
        calls == <<Call("post_update_ticket", <<ticket_id, update_data>>,
                        Requests("post_update_ticket", <<ticket_id, update_data>>),
                        g.update_ticket, result)>>
    IN  IF Truthy(result) /\ Get(result.v, "response_code", 0) = 200
        THEN Ret(reset_to_main(clear_ticket_data(sm)),
                 Msg("ticket_updated", [ticket_id |-> ticket_id,
                                        update_fields |-> DOMAIN update_data]),
                 MacRoman("thoat"), calls)
        ELSE _handle_update_api_error(sm, ticket_id, calls)

_handle_update_confirmation_correct(sm, g) ==
    LET stored_data == get_stored_ticket_data(sm)
    IN  IF ~Truthy(stored_data) \/ "update_data" \notin DOMAIN stored_data.v
        THEN _handle_edit_error(sm, <<>>)
        ELSE IF "ticket_id" \notin DOMAIN stored_data.v
        THEN Caught(_handle_edit_error(sm, <<>>))
        ELSE _execute_ticket_update(stored_data.v["ticket_id"], stored_data.v["update_data"], sm, g)

_handle_update_confirmation_wrong_keeping_update(sm) ==
    LET stored_data == get_stored_ticket_data(sm)
    IN  IF Truthy(stored_data) /\ "ticket_info" \in DOMAIN stored_data.v
        THEN IF "ticket_id" \notin DOMAIN stored_data.v
             THEN Caught(_handle_edit_error(sm, <<>>))
             ELSE _display_and_request_update(
                      switch_stage(sm, "updating_ticket"),
                      stored_data.v["ticket_info"], stored_data.v["ticket_id"], <<>>)
        ELSE Ret(sm, Msg("need_ticket_id", EmptyDict), MacRoman("sua ticket"), <<>>)

_handle_update_confirmation_wrong(sm) ==
    LET stored_data == get_stored_ticket_data(sm)
    IN  IF Truthy(stored_data) /\ "ticket_info" \in DOMAIN stored_data.v
        THEN IF "ticket_id" \notin DOMAIN stored_data.v
             THEN Caught(_handle_edit_error(sm, <<>>))
             ELSE _display_and_request_update(
                      switch_stage(
                          store_ticket_data(sm, Dict([ticket_id |-> stored_data.v["ticket_id"],
                                                      ticket_info |-> stored_data.v["ticket_info"]])),
                          "updating_ticket"),
                      stored_data.v["ticket_info"], stored_data.v["ticket_id"], <<>>)
        ELSE Ret(sm, Msg("need_ticket_id", EmptyDict), MacRoman("sua ticket"), <<>>)

handle_edit_confirmation_stage(sm, response_text, summary, g) ==
    IF summary = MacRoman("dung") THEN _handle_update_confirmation_correct(sm, g)
    ELSE IF summary = "sai" THEN _handle_update_confirmation_wrong(sm)
    ELSE IF summary = MacRoman("thoat") THEN _handle_edit_exit_request(clear_ticket_data(sm))
    ELSE Ret(sm, Msg("answer_dung_or_sai", EmptyDict), MacRoman("cho xac nhan cap nhat edit"), <<>>)

-----------------------------------------------------------------------------
(* utils.py: the router *)

\* _handle_main_stage without the switch_stage('edit').
_handle_main_stage_without_edit_switch(sm, response_text, summary, g) ==
    IF summary = "tao ticket"
    THEN handle_create_stage(response_text, summary, switch_stage(sm, "create"))
    ELSE IF summary = "sua ticket"
    THEN handle_edit_stage(response_text, summary, sm, g)
    ELSE Ret(sm, response_text, summary, <<>>)

_handle_main_stage(sm, response_text, summary, g) ==
    IF summary = "tao ticket"
    THEN handle_create_stage(response_text, summary, switch_stage(sm, "create"))
    ELSE IF summary = "sua ticket"
    THEN handle_edit_stage(response_text, summary, switch_stage(sm, "edit"), g)
    ELSE Ret(sm, response_text, summary, <<>>)

_handle_edit_stage_routing(sm, response_text, summary, g) ==
    LET handled == handle_edit_stage(response_text, summary, sm, g)
    IN  IF handled.summary \in {"thoat", "tao ticket"}
        THEN [handled EXCEPT !.sm = reset_to_main(handled.sm)]
        ELSE handled

route_to_stage(sm, response_text, summary, g) ==
    IF sm.current_stage = "main" THEN _handle_main_stage(sm, response_text, summary, g)
    ELSE IF sm.current_stage = "create"
    THEN _handle_create_stage_routing(sm, response_text, summary, g)
    ELSE IF sm.current_stage = "edit"
    THEN _handle_edit_stage_routing(sm, response_text, summary, g)
    ELSE IF sm.current_stage = "confirmation"
    THEN _handle_confirmation_stage(sm, response_text, summary, g)
    ELSE IF sm.current_stage = "update_confirmation"
    THEN _handle_update_confirmation_stage(sm, response_text, summary, g)
    ELSE IF sm.current_stage = "correct"
    THEN _handle_correct_stage(sm, response_text, summary, g)
    ELSE IF sm.current_stage = "1_ci_data"
    THEN _handle_single_ci_data_stage(sm, response_text, summary, g)
    ELSE IF sm.current_stage = "multiple_ci_data"
    THEN _handle_multiple_ci_data_stage(sm, response_text, summary, g)
    ELSE IF sm.current_stage = "updating_ticket"
    THEN handle_updating_ticket_stage(sm, response_text, summary)
    ELSE IF sm.current_stage = "edit_confirmation"
    THEN handle_edit_confirmation_stage(sm, response_text, summary, g)
    ELSE Ret(sm, response_text, summary, <<>>)

-----------------------------------------------------------------------------
(* What the classifier can hand to the router in one turn *)

Chars(str) ==
    CASE str = "ok" -> <<"o", "k">>
      [] str = "ATM" -> <<"A", "T", "M">>
      [] str = "atm hong" -> <<"a", "t", "m", " ", "h", "o", "n", "g">>
      [] str = "pc" -> <<"p", "c">>
      [] str = "hong" -> <<"h", "o", "n", "g">>
      [] str = " 123 " -> <<" ", "1", "2", "3", " ">>
      [] str = "TK1" -> <<"T", "K", "1">>
      [] str = "!!" -> <<"!", "!">>
      [] str = "Closed" -> <<"C", "l", "o", "s", "e", "d">>
      [] str = "12" -> <<"1", "2">>
      [] str = "test" -> <<"t", "e", "s", "t">>

\* str payloads: free text and serial numbers typed by the user.
TextPayloads == {Str(Chars("ok")), Str(SerialOf(1)), Str(SerialOf(2))}

\* dict payloads of the create flow: ticket data (complete and padded, complete,
\* complete with a two-character serial number, complete with a placeholder
\* description, incomplete) and corrections of stored ticket data, one of them
\* to an empty value.
TicketPayloads ==
    {Dict([serial_number |-> Chars(" 123 "), device_type |-> Chars("ATM"),
           problem_description |-> Chars("atm hong")]),
     Dict([serial_number |-> SerialOf(2), device_type |-> Chars("pc"),
           problem_description |-> Chars("hong")]),
     Dict([serial_number |-> Chars("12"), device_type |-> Chars("pc"),
           problem_description |-> Chars("hong")]),
     Dict([serial_number |-> SerialOf(2), device_type |-> Chars("pc"),
           problem_description |-> Chars("test")]),
     Dict([serial_number |-> SerialOf(1)]),
     Dict([field_to_update |-> "problem_description", new_value |-> Chars("hong")]),
     Dict([field_to_update |-> "serial_number", new_value |-> <<>>])}

\* dict payloads of the edit flow: a ticket id (valid, malformed) and update data.
EditPayloads ==
    {Dict([ticket_id |-> Chars("TK1")]), Dict([ticket_id |-> Chars("!!")]),
     Dict([status |-> Chars("Closed")])}

\* json.loads may also yield null in the "response" field.
Payloads == TextPayloads \cup TicketPayloads \cup EditPayloads \cup {None}

\* The labels the handlers of a stage compare the summary with.
LabelsTested(stage) ==
    CASE stage = "main" -> {"tao ticket", "sua ticket", "thoat"}
      [] stage = "create" -> {"dung", "sai", "sua ticket", "thoat", "cho xac nhan", "tao ticket"}
      [] stage = "edit" ->
            {MacRoman("tao ticket"), MacRoman("thoat"), "tao ticket", "thoat", "sua ticket"}
      [] stage = "confirmation" -> {"dung", "sai", "thoat", "cap nhat thong tin"}
      [] stage = "update_confirmation" -> {"cap nhat thong tin", "thoat"}
      [] stage = "correct" -> {"dang xu ly", "hoan thanh", "thoat"}
      [] stage = "1_ci_data" -> {"tao", "Khong tao", "thoat"}
      [] stage = "multiple_ci_data" -> {"kiem tra serial number", "Khong tao", "thoat"}
      [] stage = "updating_ticket" ->
            {MacRoman("thoat"), MacRoman("cap nhat ticket"),
             MacRoman("cho thong tin cap nhat"), "thoat"}
      [] stage = "edit_confirmation" -> {MacRoman("dung"), "sai", MacRoman("thoat"), "thoat"}

\* The summaries a turn is explored with: every label its stage tests, and for
\* all the labels it does not test (they take the same branches) an unknown
\* label and the empty string; in confirmation also 'sua ticket', the label the
\* classifier gives a request for the other flow, and in updating_ticket also
\* 'cap nhat ticket' and in edit_confirmation also 'dung', as the classifier's
\* prompts spell them.
Summaries(stage) ==
    LabelsTested(stage) \cup {"khong xac dinh", ""}
        \cup (IF stage = "confirmation" THEN {"sua ticket"} ELSE {})
        \cup (IF stage = "updating_ticket" THEN {"cap nhat ticket"} ELSE {})
        \cup (IF stage = "edit_confirmation" THEN {"dung"} ELSE {})

\* Names that are not keys of stage_contexts.
InvalidStageNames == {"", "Main", "done"}

\* The remote API before it has been asked anything: every request fails.
NoAnswers ==
    [find_ci |-> None, tickets_by_sn |-> None, create_ticket |-> None,
     ticket_by_id |-> None, update_ticket |-> None]

\* The component of the remote API that a gateway operation asks.
OracleOf(op) ==
    CASE op = "get_ci_with_sn" -> "find_ci"
      [] op = "get_all_ticket_for_sn" -> "tickets_by_sn"
      [] op = "post_create_ticket" -> "create_ticket"
      [] op = "get_ticket_by_id" -> "ticket_by_id"
      [] op = "post_update_ticket" -> "update_ticket"

ResponsesOf(op) ==
    CASE op = "get_ci_with_sn" -> FindCiResponses
      [] op = "get_all_ticket_for_sn" -> TicketsBySnResponses
      [] op = "post_create_ticket" -> CreateTicketResponses
      [] op = "get_ticket_by_id" -> TicketByIdResponses
      [] op = "post_update_ticket" -> UpdateTicketResponses

\* The remote API answers the requests a turn sends, in the order it sends them:
\* given the answers `a.g` to the operations `a.answered`, the choices for the
\* next request of the turn whose outcome under `a.g` is `r`.
AnswerNext(a, r) ==
    LET open == {i \in 1..Len(r.calls) :
                    r.calls[i].requested /\ r.calls[i].op \notin a.answered}
        op == r.calls[CHOOSE i \in open : \A j \in open : i <= j].op
    IN  IF open = {} THEN {a}
        ELSE {[g |-> [a.g EXCEPT ![OracleOf(op)] = v], answered |-> a.answered \cup {op}] :
                 v \in ResponsesOf(op)}

-----------------------------------------------------------------------------
(* The state machine *)

\* `turn` records the last operation: its inputs, the StageManager it found,
\* and what it handed back.
TurnRecord(op, before, response_text, summary, r, returned) ==
    [op |-> op, before |-> before, response_text |-> response_text, summary |-> summary,
     response |-> r.response, final_summary |-> r.summary, calls |-> r.calls,
     raised |-> r.raised, returned |-> returned]

\* Between two calls nothing is in flight.
Idle(sm) == TurnRecord("idle", sm, None, "", Ret(sm, None, "", <<>>), TRUE)

\* The API server before its first request.
ServerStarted ==
    /\ active_sessions = EmptyDict
    /\ sessions = <<>>
    /\ clock = 0
    /\ user_input = None

Init ==
    /\ stage_manager = StageManager_init
    /\ turn = Idle(StageManager_init)
    /\ is_running = TRUE
    /\ ServerStarted

\* The outcomes of one call of route_to_stage, one for each way the remote API
\* can answer the requests the call sends after those answered in `a`.
RECURSIVE Outcomes(_, _, _, _)
Outcomes(sm, response_text, summary, a) ==
    LET r == route_to_stage(sm, response_text, summary, a.g)
        more == AnswerNext(a, r)
    IN  IF more = {a} THEN {r}
        ELSE UNION {Outcomes(sm, response_text, summary, b) : b \in more}

\* What the classifier call of a turn can come to: the chain raises, its output
\* is not JSON, or its output is a JSON object (here with both keys, or with
\* neither).
ChainOutcomes(stage) ==
    {[kind |-> "chain_error"], [kind |-> "json_error"], [kind |-> "json", result |-> EmptyDict]}
    \cup {[kind |-> "json", result |-> [response |-> response_field, summary |-> summary]] :
             response_field \in Payloads, summary \in Summaries(stage)}

\* get_response without its try blocks: a failure of the chain or of json.loads
\* goes up to the caller.
get_response_unguarded(outcome) ==
    IF outcome.kind \in {"chain_error", "json_error"}
    THEN [returned |-> FALSE, response |-> None, summary |-> ""]
    ELSE [returned |-> TRUE,
          response |-> Get(outcome.result, "response", Str(<<>>)),
          summary |-> Get(outcome.result, "summary", "error")]

\* get_response: the pair (response, summary) it returns; its try blocks turn
\* every failure into a text reply labelled 'error' or 'json_error'.
get_response(outcome) ==
    IF outcome.kind = "chain_error"
    THEN [returned |-> TRUE, response |-> Msg("chain_error", EmptyDict), summary |-> "error"]
    ELSE IF outcome.kind = "json_error"
    THEN [returned |-> TRUE, response |-> Msg("json_error", EmptyDict),
          summary |-> "json_error"]
    ELSE [returned |-> TRUE,
          response |-> Get(outcome.result, "response", Str(<<>>)),
          summary |-> Get(outcome.result, "summary", "error")]

\* get_response classifies the input and route_to_stage handles the result; a
\* call that raises instead of returning leaves the caller without a pair.
RouteCall ==
    \E outcome \in ChainOutcomes(stage_manager.current_stage) :
        LET classified == get_response(outcome)
            response_text == classified.response
            summary == classified.summary
        IN  IF classified.returned
            THEN \E r \in Outcomes(stage_manager, response_text, summary,
                                   [g |-> NoAnswers, answered |-> {}]) :
                    /\ stage_manager' = r.sm
                    /\ turn' = TurnRecord("route_to_stage", stage_manager, response_text,
                                          summary, r, TRUE)
            ELSE /\ stage_manager' = stage_manager
                 /\ turn' = TurnRecord("route_to_stage", stage_manager, response_text,
                                       summary, Ret(stage_manager, None, "", <<>>), FALSE)

(* The router on its own: any sequence of calls. *)

\* One call of route_to_stage, in whatever stage the conversation is.
Route ==
    /\ turn.op = "idle"
    /\ RouteCall
    /\ UNCHANGED is_running
    /\ UNCHANGED <<api_vars, user_input>>

\* A caller asks switch_stage for a stage that does not exist.
SwitchStageInvalid ==
    /\ turn.op = "idle"
    /\ \E new_stage \in InvalidStageNames :
        /\ stage_manager' = switch_stage(stage_manager, new_stage)
        /\ turn' = TurnRecord("switch_stage", stage_manager, None, new_stage,
                              Ret(stage_manager, None, "", <<>>),
                              switch_stage_returns(stage_manager, new_stage))
    /\ UNCHANGED is_running
    /\ UNCHANGED <<api_vars, user_input>>

\* The call has returned to its caller; the conversation awaits the next input.
Return ==
    /\ turn.op # "idle"
    /\ turn' = Idle(stage_manager)
    /\ UNCHANGED <<stage_manager, is_running>>
    /\ UNCHANGED <<api_vars, user_input>>

Next ==
    \/ Route
    \/ SwitchStageInvalid
    \/ Return

Spec == Init /\ [][Next]_vars

(* The conversation loop of ChatbotSession.run *)

\* What the user can type at the prompt.
RawInputs ==
    {<<"t", "h", "o", "a", "t">>, <<"T", "h", "o", "a", "t">>, <<" ", "B", "Y", "E", " ">>,
     <<"q", "u", "i", "t">>, <<"t", "a", "o">>, <<"d", "o", "i", " ", "p", "c">>,
     <<"b", "y", "e", "!">>}

\* get_user_input: input(prompt).strip()
get_user_input(raw) == strip(raw)

\* 'tam biet', 'thoat', 'bye', 'exit', 'quit'
exit_keywords ==
    {<<"t", "a", "m", " ", "b", "i", "e", "t">>, <<"t", "h", "o", "a", "t">>,
     <<"b", "y", "e">>, <<"e", "x", "i", "t">>, <<"q", "u", "i", "t">>}

\* should_exit without the lower().
should_exit_returns_as_typed(input) == input \in exit_keywords

\* ChatbotSession.should_exit(user_input)
should_exit_returns(input) == lower(input) \in exit_keywords

\* 'doi', 'thay', 'sua', 'thanh'
update_keywords ==
    {<<"d", "o", "i">>, <<"t", "h", "a", "y">>, <<"s", "u", "a">>,
     <<"t", "h", "a", "n", "h">>}

_is_update_request(input) == \E keyword \in update_keywords : Contains(lower(input), keyword)

\* process_user_input, for an input that is no exit keyword: in the
\* confirmation stage an input holding an update keyword goes to
\* utils.handle_update_confirmation_direct, which utils.py does not define; the
\* AttributeError is caught and answered with summary "error".  Every other
\* input is classified and routed.
process_user_input ==
    /\ is_running /\ turn.op = "idle"
    /\ \E raw \in RawInputs :
          /\ ~should_exit_returns(get_user_input(raw))
          /\ user_input' = Str(get_user_input(raw))
          /\ IF stage_manager.current_stage = "confirmation"
                  /\ _is_update_request(get_user_input(raw))
             THEN /\ turn' = TurnRecord("process_user_input", stage_manager, None, "",
                                        Caught(Ret(stage_manager,
                                                   Msg("process_error", EmptyDict),
                                                   "error", <<>>)), TRUE)
                  /\ UNCHANGED stage_manager
             ELSE RouteCall
    /\ UNCHANGED is_running
    /\ UNCHANGED api_vars

\* The rest of the loop body: handle_special_response shuts the session down on
\* 'thoat', returns from `correct` to `main` on 'ticket da duoc tao'; every other
\* reply is recorded and shown.
handle_special_response ==
    /\ is_running /\ turn.op # "idle"
    /\ IF turn.final_summary = "thoat"
       THEN is_running' = FALSE /\ UNCHANGED stage_manager
       ELSE IF turn.final_summary = "ticket da duoc tao"
                /\ stage_manager.current_stage = "correct"
       THEN stage_manager' = switch_stage(stage_manager, "main") /\ UNCHANGED is_running
       ELSE UNCHANGED <<stage_manager, is_running>>
    /\ turn' = Idle(stage_manager')
    /\ UNCHANGED <<api_vars, user_input>>

\* The user types an exit keyword: _shutdown and break, before anything is
\* classified.
should_exit ==
    /\ is_running /\ turn.op = "idle"
    /\ \E raw \in RawInputs :
          /\ should_exit_returns(get_user_input(raw))
          /\ user_input' = Str(get_user_input(raw))
    /\ is_running' = FALSE
    /\ UNCHANGED <<stage_manager, turn>>
    /\ UNCHANGED api_vars

SessionNext ==
    \/ process_user_input
    \/ handle_special_response
    \/ should_exit

SessionSpec == Init /\ [][SessionNext]_vars

(* validate_ticket_data on its own *)

\* The values a field of a ticket dict is tried with: empty, blank, one
\* character, padded.
FieldValues == {<<>>, <<" ">>, <<"a">>, <<" ", "b", " ">>}

\* Ticket dicts: every subset of the three fields, every choice of values.
TicketDicts ==
    UNION {[fields -> FieldValues] : fields \in SUBSET {"serial_number", "device_type",
                                                        "problem_description"}}

\* A call of validate_ticket_data(ticket_data) that has not run yet.
ValidateInit ==
    /\ stage_manager = StageManager_init
    /\ is_running = TRUE
    /\ ServerStarted
    /\ \E ticket_data \in TicketDicts :
          turn = TurnRecord("validate_ticket_data", StageManager_init, Dict(ticket_data), "",
                            Ret(StageManager_init, None, "", <<>>), FALSE)

\* The call runs and hands back (is_complete, missing_fields).
ValidateCall ==
    /\ turn.op = "validate_ticket_data" /\ ~turn.returned
    /\ turn' = [turn EXCEPT !.response = validate_ticket_data(turn.response_text.v),
                            !.returned = TRUE]
    /\ UNCHANGED <<stage_manager, is_running>>
    /\ UNCHANGED <<api_vars, user_input>>

ValidateNext == ValidateCall

ValidateSpec == ValidateInit /\ [][ValidateNext]_vars

(* make_api_request on its own: one call, attempt by attempt *)

MAX_RETRY_ATTEMPTS == 3

STATUS_NOT_FOUND == 404

\* What one HTTP attempt can come to: requests raises Timeout, ConnectionError,
\* another RequestException or some other exception, or a response arrives
\* with a status code and a body that response.json() decodes (NotJson when it
\* cannot).
NotJson == [py |-> "not json"]

HttpOutcomes ==
    {[kind |-> "Timeout"], [kind |-> "ConnectionError"], [kind |-> "RequestException"],
     [kind |-> "Exception"]}
    \cup {[kind |-> "response", status_code |-> 200, json |-> body] :
             body \in {Dict(CI(1)), List(<<>>), NotJson}}
    \cup {[kind |-> "response", status_code |-> code, json |-> NotJson] :
             code \in {404, 500, 503, 400}}

\* `if attempt < max_retries: sleep; continue` followed by `return None`, with
\* one attempt fewer before giving up.
retry_or_give_up_early(attempt, max_retries) ==
    IF attempt < max_retries - 1
    THEN [done |-> FALSE, value |-> None]
    ELSE [done |-> TRUE, value |-> None]

\* `if attempt < max_retries: sleep; continue` followed by `return None`.
retry_or_give_up(attempt, max_retries) ==
    IF attempt < max_retries
    THEN [done |-> FALSE, value |-> None]
    ELSE [done |-> TRUE, value |-> None]

\* The loop body with a 404 handled like any other error status.
attempt_results_retrying_not_found(attempt, outcome, max_retries) ==
    IF outcome.kind = "response" /\ outcome.status_code = STATUS_SUCCESS
           /\ outcome.json # NotJson
    THEN {[done |-> TRUE, value |-> outcome.json]}
    ELSE IF outcome.kind = "Exception"
    THEN {[done |-> TRUE, value |-> None]}
    ELSE {retry_or_give_up(attempt, max_retries)}

\* The body of the loop for attempt number `attempt` (from 0): whether the call
\* returns (done) and what.  A 200 whose body is not JSON makes response.json()
\* raise: a RequestException where requests defines its own JSONDecodeError, a
\* plain ValueError elsewhere, so either handler may run.
attempt_results(attempt, outcome, max_retries) ==
    IF outcome.kind = "response"
    THEN IF outcome.status_code = STATUS_SUCCESS
         THEN IF outcome.json # NotJson
              THEN {[done |-> TRUE, value |-> outcome.json]}
              ELSE {retry_or_give_up(attempt, max_retries), [done |-> TRUE, value |-> None]}
         ELSE IF outcome.status_code = STATUS_NOT_FOUND
         THEN {[done |-> TRUE, value |-> None]}
         ELSE {retry_or_give_up(attempt, max_retries)}
    ELSE IF outcome.kind \in {"Timeout", "ConnectionError", "RequestException"}
    THEN {retry_or_give_up(attempt, max_retries)}
    ELSE {[done |-> TRUE, value |-> None]}

\* A call of make_api_request with the default max_retries, before its first
\* attempt.  `calls` logs the outcome of every attempt made.
GatewayInit ==
    /\ stage_manager = StageManager_init
    /\ is_running = TRUE
    /\ ServerStarted
    /\ turn = TurnRecord("make_api_request", StageManager_init, None, "",
                         Ret(StageManager_init, None, "", <<>>), FALSE)

\* A retry loop that never counts its attempts: every attempt is the first,
\* and the log holds the latest one.
make_api_request_attempt_uncounted ==
    /\ turn.op = "make_api_request" /\ ~turn.returned
    /\ \E outcome \in HttpOutcomes :
          \E res \in attempt_results(0, outcome, MAX_RETRY_ATTEMPTS) :
             turn' = [turn EXCEPT !.calls = <<outcome>>,
                                  !.response = res.value,
                                  !.returned = res.done]
    /\ UNCHANGED <<stage_manager, is_running>>
    /\ UNCHANGED <<api_vars, user_input>>

\* One pass of `for attempt in range(max_retries + 1)`; when the range is used
\* up the function returns None.
make_api_request_attempt ==
    /\ turn.op = "make_api_request" /\ ~turn.returned
    /\ LET attempt == Len(turn.calls)
       IN  IF attempt \in 0..MAX_RETRY_ATTEMPTS
           THEN \E outcome \in HttpOutcomes :
                   \E res \in attempt_results(attempt, outcome, MAX_RETRY_ATTEMPTS) :
                      turn' = [turn EXCEPT !.calls = Append(@, outcome),
                                           !.response = res.value,
                                           !.returned = res.done]
           ELSE turn' = [turn EXCEPT !.response = None, !.returned = TRUE]
    /\ UNCHANGED <<stage_manager, is_running>>
    /\ UNCHANGED <<api_vars, user_input>>

GatewayNext == make_api_request_attempt

GatewaySpec == GatewayInit /\ [][GatewayNext]_vars

\* Every attempt ends within `timeout` seconds and every backoff sleep is
\* finite, so a call that has not returned goes on to its next attempt.
GatewayFairSpec == GatewaySpec /\ WF_vars(make_api_request_attempt)

(* The API server of api_routes.py.  chat is an `async def` without an     *)
(* await: the event loop runs each request to its end before the next one. *)

\* Most ChatbotSession objects constructed.
MaxSessions == 2

\* The clock ticks this many times a second, and MaxClock ticks in all.
TicksPerSecond == 2

MaxClock == 3

\* datetime.now().strftime("%Y%m%d_%H%M%S"): the time cut to the second.
strftime(now) == <<"s">> \o IntToStr(now \div TicksPerSecond)

\* del d[key]
Del(d, key) == [k \in DOMAIN d \ {key} |-> d[k]]

\* Longest history a session records: a session that holds MaxMessages
\* messages takes no further turn.
MaxMessages == 4

\* ChatHistory: HumanMessage(content=message), AIMessage(content=message)
HumanMessage(content) == [type |-> "human", content |-> content]

AIMessage(content) == [type |-> "ai", content |-> content]

\* ChatHistory.add_user_message, add_ai_message, applied to self.messages
add_user_message(messages, message) == Append(messages, HumanMessage(message))

add_ai_message(messages, message) == Append(messages, AIMessage(message))

\* ChatbotSession.update_chat_history
update_chat_history(messages, message, response) ==
    add_ai_message(add_user_message(messages, message), response)

\* ChatbotSession(): a new object, with the messages of its ChatHistory.
\* `session_id`, `ended` and `revisited` are not attributes of the object: they
\* note the id chat handed out when it constructed it, that chat has deleted
\* it from active_sessions after an exit, and that a request has carried its
\* id since.
ChatbotSession_init(session_id) ==
    [stage_manager |-> StageManager_init, is_running |-> TRUE, chat_history |-> <<>>,
     session_id |-> session_id, ended |-> FALSE, revisited |-> FALSE]

\* request.message
RequestMessages == {Str(<<"h", "i">>)}

\* The session ids a client can send: none, or an id the server has handed out
\* at some time.
RequestSessionIds == {None} \cup {Str(strftime(now)) : now \in 0..MaxClock}

\* What the classifier makes of the messages sent to the server.
ApiChainOutcomes ==
    {[kind |-> "chain_error"]}
    \cup {[kind |-> "json",
           result |-> [response |-> Str(<<"o", "k">>), summary |-> summary]] :
             summary \in {"tao ticket", "thoat", ""}}

\* ChatbotSession.process_user_input on a session whose StageManager is `sm`:
\* the pairs (response, summary) it can return, each with the StageManager it
\* leaves.  An exception on the way is caught and answered with "error".
session_process_user_input(sm, outcome) ==
    LET classified == get_response(outcome)
        process_error == Caught(Ret(sm, Msg("process_error", EmptyDict), "error", <<>>))
    IN  (IF classified.returned
         THEN Outcomes(sm, classified.response, classified.summary,
                       [g |-> NoAnswers, answered |-> {}])
         ELSE {process_error})
        \cup (IF sm.current_stage = "confirmation" THEN {process_error} ELSE {})

\* POST /chat
chat ==
    /\ \E session_id \in RequestSessionIds, message \in RequestMessages,
          outcome \in ApiChainOutcomes :
          LET known == Truthy(session_id) /\ session_id.v \in DOMAIN active_sessions
              created == IF known THEN sessions
                         ELSE Append(sessions, ChatbotSession_init(strftime(clock)))
              id == IF known THEN session_id.v ELSE strftime(clock)
              registered == IF known THEN active_sessions
                            ELSE Put(active_sessions, id, Len(created))
              session == registered[id]
              noted == [i \in DOMAIN created |->
                           IF /\ created[i].ended /\ Truthy(session_id)
                              /\ created[i].session_id = session_id.v
                           THEN [created[i] EXCEPT !.revisited = TRUE]
                           ELSE created[i]]
          IN  /\ ~known => Len(sessions) < MaxSessions
              /\ Len(created[session].chat_history) + 2 <= MaxMessages
              /\ \E r \in session_process_user_input(created[session].stage_manager,
                                                     outcome) :
                    /\ sessions' = [noted EXCEPT
                                       ![session].stage_manager = r.sm,
                                       ![session].chat_history =
                                           update_chat_history(@, message, r.response),
                                       ![session].ended = (r.summary = "thoat")]
                    /\ active_sessions' = IF r.summary = "thoat"
                                          THEN Del(registered, id)
                                          ELSE registered
                    /\ turn' = [op |-> "chat", request_session_id |-> session_id,
                                message |-> message,
                                session_id |-> id, session |-> session,
                                created |-> ~known, response |-> r.response,
                                success |-> r.summary \notin {"thoat", "error"},
                                summary |-> r.summary, status_code |-> 200]
    /\ UNCHANGED <<stage_manager, is_running, clock, user_input>>

\* DELETE /chat/{session_id}
end_session ==
    /\ \E session_id \in RequestSessionIds \ {None} :
          /\ active_sessions' = IF session_id.v \in DOMAIN active_sessions
                                THEN Del(active_sessions, session_id.v)
                                ELSE active_sessions
          /\ turn' = [op |-> "end_session", request_session_id |-> session_id,
                      status_code |-> IF session_id.v \in DOMAIN active_sessions
                                      THEN 200 ELSE STATUS_NOT_FOUND]
    /\ UNCHANGED <<stage_manager, is_running, sessions, clock, user_input>>

\* Time passes between two requests.
tick ==
    /\ clock < MaxClock
    /\ clock' = clock + 1
    /\ UNCHANGED <<stage_manager, is_running, turn, active_sessions, sessions, user_input>>

ApiNext ==
    \/ chat
    \/ end_session
    \/ tick

ApiSpec == Init /\ [][ApiNext]_vars

(* The console program: main() constructs one ChatbotSession and calls run. *)

\* What the classifier makes of what the user types at the console.
RunChainOutcomes ==
    ApiChainOutcomes
    \cup {[kind |-> "json",
           result |-> [response |-> Str(<<"o", "k">>), summary |-> summary]] :
             summary \in {"sua ticket", "ticket da duoc tao"}}

RunInit ==
    /\ stage_manager = StageManager_init
    /\ is_running = TRUE
    /\ active_sessions = EmptyDict
    /\ sessions = <<ChatbotSession_init(<<>>)>>
    /\ clock = 0
    /\ user_input = None
    /\ turn = [op |-> "main"]

\* One iteration of the loop of ChatbotSession.run: an exit word shuts the
\* session down; any other input is processed, then handle_special_response
\* records the reply of a turn labelled 'thoat' or 'ticket da duoc tao', and
\* update_chat_history records every other turn.
run ==
    /\ sessions[1].is_running
    /\ Len(sessions[1].chat_history) + 2 <= MaxMessages
    /\ \E raw \in RawInputs, outcome \in RunChainOutcomes :
          LET self == sessions[1]
              input == get_user_input(raw)
              process_error ==
                  Caught(Ret(self.stage_manager, Msg("process_error", EmptyDict), "error", <<>>))
              results ==
                  IF /\ self.stage_manager.current_stage = "confirmation"
                     /\ _is_update_request(input)
                  THEN {process_error}
                  ELSE Outcomes(self.stage_manager, get_response(outcome).response,
                                get_response(outcome).summary,
                                [g |-> NoAnswers, answered |-> {}])
          IN  /\ user_input' = Str(input)
              /\ IF should_exit_returns(input)
                 THEN /\ sessions' = [sessions EXCEPT ![1].is_running = FALSE]
                      /\ turn' = [op |-> "run", processed |-> FALSE, before |-> self]
                 ELSE \E r \in results :
                        /\ sessions' =
                              [sessions EXCEPT
                                  ![1].stage_manager =
                                      IF /\ r.summary = "ticket da duoc tao"
                                         /\ r.sm.current_stage = "correct"
                                      THEN switch_stage(r.sm, "main")
                                      ELSE r.sm,
                                  ![1].is_running = (r.summary # "thoat"),
                                  ![1].chat_history =
                                      IF r.summary \in {"thoat", "ticket da duoc tao"}
                                      THEN add_ai_message(@, r.response)
                                      ELSE update_chat_history(@, Str(input), r.response)]
                        /\ turn' = [op |-> "run", processed |-> TRUE, before |-> self,
                                    response |-> r.response, summary |-> r.summary]
    /\ UNCHANGED <<stage_manager, is_running, active_sessions, clock>>

RunNext == run

RunSpec == RunInit /\ [][RunNext]_vars

(* The event loop of the server.  chat is a coroutine (async def) whose body *)
(* holds no await: uvicorn.run starts one process with one event loop, and  *)
(* the loop runs a coroutine up to its next await, so here to its return.    *)

\* Most requests sent to the server.
MaxRequests == 3

EventLoopInit ==
    /\ stage_manager = StageManager_init
    /\ is_running = TRUE
    /\ ServerStarted
    /\ turn = [op |-> "event_loop", arrived |-> 0, waiting |-> {}, running |-> {},
               served |-> {}]

\* The event loop starts a coroutine whenever it likes, also while others are
\* in flight.
event_loop_free_at_any_time(running) == TRUE

\* The event loop starts the next coroutine when the one it runs has returned.
event_loop_free(running) == running = {}

\* A client sends POST /chat; the request waits for the event loop.
request_arrives ==
    /\ turn.arrived < MaxRequests
    /\ \E session_id \in RequestSessionIds, message \in RequestMessages :
          turn' = [turn EXCEPT
                      !.arrived = @ + 1,
                      !.waiting = @ \cup {[n |-> turn.arrived + 1, session_id |-> session_id,
                                           message |-> message]}]
    /\ UNCHANGED <<stage_manager, is_running, api_vars, user_input>>

\* chat, lines 37-45: the session of the request is looked up or constructed.
chat_resolve ==
    /\ event_loop_free(turn.running)
    /\ \E request \in turn.waiting :
          LET session_id == request.session_id
              known == Truthy(session_id) /\ session_id.v \in DOMAIN active_sessions
              created == IF known THEN sessions
                         ELSE Append(sessions, ChatbotSession_init(strftime(clock)))
              id == IF known THEN session_id.v ELSE strftime(clock)
              registered == IF known THEN active_sessions
                            ELSE Put(active_sessions, id, Len(created))
              session == registered[id]
          IN  /\ ~known => Len(sessions) < MaxSessions
              /\ Len(created[session].chat_history) + 2 <= MaxMessages
              /\ sessions' = created
              /\ active_sessions' = registered
              /\ turn' = [turn EXCEPT
                             !.waiting = @ \ {request},
                             !.running = @ \cup {[request |-> request, session_id |-> id,
                                                  session |-> session,
                                                  found |-> created[session],
                                                  line |-> 48]}]
    /\ UNCHANGED <<stage_manager, is_running, clock, user_input>>

\* chat, line 48: session.process_user_input classifies and routes the message.
chat_process_user_input ==
    /\ \E coroutine \in turn.running, outcome \in ApiChainOutcomes :
          /\ coroutine.line = 48
          /\ \E r \in session_process_user_input(sessions[coroutine.session].stage_manager,
                                                 outcome) :
                /\ sessions' = [sessions EXCEPT ![coroutine.session].stage_manager = r.sm]
                /\ turn' = [turn EXCEPT
                               !.running = (@ \ {coroutine})
                                  \cup {[request |-> coroutine.request,
                                         session_id |-> coroutine.session_id,
                                         session |-> coroutine.session,
                                         found |-> coroutine.found,
                                         response |-> r.response, summary |-> r.summary,
                                         line |-> 51]}]
    /\ UNCHANGED <<stage_manager, is_running, active_sessions, clock, user_input>>

\* chat, lines 51-67: the turn is recorded, the session of an exit is deleted and
\* the response is returned.
chat_respond ==
    /\ \E coroutine \in turn.running :
          /\ coroutine.line = 51
          /\ sessions' = [sessions EXCEPT
                             ![coroutine.session].chat_history =
                                 update_chat_history(@, coroutine.request.message,
                                                     coroutine.response),
                             ![coroutine.session].ended = (coroutine.summary = "thoat")]
          /\ active_sessions' = IF /\ coroutine.summary = "thoat"
                                   /\ coroutine.session_id \in DOMAIN active_sessions
                                THEN Del(active_sessions, coroutine.session_id)
                                ELSE active_sessions
          /\ turn' = [turn EXCEPT
                         !.running = @ \ {coroutine},
                         !.served = @ \cup {[n |-> coroutine.request.n,
                                             session |-> coroutine.session,
                                             found |-> coroutine.found,
                                             response |-> coroutine.response,
                                             summary |-> coroutine.summary]}]
    /\ UNCHANGED <<stage_manager, is_running, clock, user_input>>

\* Time passes while requests wait and run.
event_loop_tick ==
    /\ clock < MaxClock
    /\ clock' = clock + 1
    /\ UNCHANGED <<stage_manager, is_running, turn, active_sessions, sessions, user_input>>

EventLoopNext ==
    \/ request_arrives
    \/ chat_resolve
    \/ chat_process_user_input
    \/ chat_respond
    \/ event_loop_tick

EventLoopSpec == EventLoopInit /\ [][EventLoopNext]_vars

(* The three ChatHistory classes of the repository, as objects on their own: *)
(* utils.py (the one ChatbotSession uses), main2.py and start.py.  A caller  *)
(* holds the list get_messages returned and does to it what Python lets a    *)
(* caller do to a list.  The elements are message objects of the library;    *)
(* what a caller can do to one of them is outside this model.                *)

\* The modules that define a ChatHistory class.
ChatHistoryModules == {"utils", "main2", "start"}

\* ChatHistory.__init__: the message list is empty; no list was handed out.
ChatHistory_init(module) ==
    [op |-> "ChatHistory", module |-> module, last |-> "__init__", messages |-> <<>>,
     returned |-> [held |-> FALSE, shared |-> FALSE, list |-> <<>>]]

ChatHistoryInit ==
    /\ stage_manager = StageManager_init
    /\ is_running = TRUE
    /\ ServerStarted
    /\ \E module \in ChatHistoryModules : turn = ChatHistory_init(module)

\* get_messages hands out the list of the history itself in every module.
get_messages_returns_the_list(module) == TRUE

\* get_messages returns self.messages in main2.py and start.py: the caller
\* holds the list of the history itself; utils.py returns self.messages.copy().
get_messages_returns_self_messages(module) == module \in {"main2", "start"}

\* The list object the caller holds is the list of the history as long as it is
\* shared, so an append to the history shows in it.
ChatHistory_appended(history, operation, appended) ==
    [history EXCEPT !.last = operation,
                    !.messages = appended,
                    !.returned.list = IF history.returned.shared THEN appended ELSE @]

\* add_user_message of the three classes.
ChatHistory_add_user_message ==
    /\ turn.op = "ChatHistory"
    /\ Len(turn.messages) < MaxMessages
    /\ \E message \in RequestMessages :
          turn' = ChatHistory_appended(turn, "add_user_message", add_user_message(turn.messages, message))
    /\ UNCHANGED <<stage_manager, is_running, api_vars, user_input>>

\* add_ai_message of the three classes.
ChatHistory_add_ai_message ==
    /\ turn.op = "ChatHistory"
    /\ Len(turn.messages) < MaxMessages
    /\ \E message \in RequestMessages :
          turn' = ChatHistory_appended(turn, "add_ai_message", add_ai_message(turn.messages, message))
    /\ UNCHANGED <<stage_manager, is_running, api_vars, user_input>>

\* get_messages of the three classes.
ChatHistory_get_messages ==
    /\ turn.op = "ChatHistory"
    /\ turn' = [turn EXCEPT
                   !.last = "get_messages",
                   !.returned = [held |-> TRUE,
                                 shared |-> get_messages_returns_self_messages(turn.module),
                                 list |-> turn.messages]]
    /\ UNCHANGED <<stage_manager, is_running, api_vars, user_input>>

\* clear, which only main2.py defines: self.messages is bound to a new empty
\* list, so a list handed out before is the history's list no longer.
ChatHistory_clear ==
    /\ turn.op = "ChatHistory"
    /\ turn.module = "main2"
    /\ turn' = [turn EXCEPT !.last = "clear", !.messages = <<>>,
                               !.returned.shared = FALSE]
    /\ UNCHANGED <<stage_manager, is_running, api_vars, user_input>>

\* list.reverse().
Reverse(list) == [i \in 1..Len(list) |-> list[Len(list) + 1 - i]]

\* What a caller can make of a list it holds: pop, clear, reverse, an
\* assignment to the first item.
CallerLists(list) ==
    {<<>>, Reverse(list)}
       \cup (IF list = <<>> THEN {}
             ELSE {SubSeq(list, 1, Len(list) - 1),
                   [list EXCEPT ![1] = AIMessage(Str(<<>>))]})

\* The caller changes the list it got from get_messages.
caller_changes_list ==
    /\ turn.op = "ChatHistory"
    /\ turn.returned.held
    /\ \E list \in CallerLists(turn.returned.list) \ {turn.returned.list} :
          turn' = [turn EXCEPT
                      !.last = "caller",
                      !.returned.list = list,
                      !.messages = IF turn.returned.shared THEN list ELSE @]
    /\ UNCHANGED <<stage_manager, is_running, api_vars, user_input>>

ChatHistoryNext ==
    \/ ChatHistory_add_user_message
    \/ ChatHistory_add_ai_message
    \/ ChatHistory_get_messages
    \/ ChatHistory_clear
    \/ caller_changes_list

ChatHistorySpec == ChatHistoryInit /\ [][ChatHistoryNext]_vars

(* A conversation as its user sees it: the turns of route_to_stage one after *)
(* the other, with a note of the last confirmation message that was shown    *)
(* and of whether 'dung' was answered to it.                                  *)

\* The reply shows the ticket as format_ticket_confirmation renders it.
IsConfirmationMessage(response) == IsMsg(response, "ticket_confirmation")

\* The last confirmation message shown after a turn that replied `response`.
ShownAfter(shown, response) ==
    IF IsConfirmationMessage(response) THEN response ELSE shown

\* Whether 'dung' has been answered to the confirmation message that shows the
\* stored ticket, after a turn labelled `summary` that replied `response`.
AnsweredAfter(answered, shown, sm, summary, response) ==
    IF IsConfirmationMessage(response) THEN FALSE
    ELSE IF /\ summary = "dung"
            /\ Truthy(sm.pending_ticket_data)
            /\ shown = format_ticket_confirmation(sm.pending_ticket_data.v)
    THEN TRUE
    ELSE answered

\* The record of a turn with the two notes.
ConversationRecord(record, shown, answered) ==
    [op |-> record.op, before |-> record.before, response_text |-> record.response_text,
     summary |-> record.summary, response |-> record.response,
     final_summary |-> record.final_summary, calls |-> record.calls,
     raised |-> record.raised, returned |-> record.returned,
     shown |-> shown, answered |-> answered]

ConversationInit ==
    /\ stage_manager = StageManager_init
    /\ turn = ConversationRecord(Idle(StageManager_init), None, FALSE)
    /\ is_running = TRUE
    /\ ServerStarted

\* One turn: get_response classifies the input, route_to_stage handles the
\* result and the caller shows the reply.
conversation_turn ==
    /\ turn.op = "idle"
    /\ \E outcome \in ChainOutcomes(stage_manager.current_stage) :
          LET classified == get_response(outcome)
              response_text == classified.response
              summary == classified.summary
          IN  IF classified.returned
              THEN \E r \in Outcomes(stage_manager, response_text, summary,
                                     [g |-> NoAnswers, answered |-> {}]) :
                      /\ stage_manager' = r.sm
                      /\ turn' = ConversationRecord(
                                    TurnRecord("route_to_stage", stage_manager,
                                               response_text, summary, r, TRUE),
                                    ShownAfter(turn.shown, r.response),
                                    AnsweredAfter(turn.answered, turn.shown, stage_manager,
                                                  summary, r.response))
              ELSE /\ stage_manager' = stage_manager
                   /\ turn' = ConversationRecord(
                                 TurnRecord("route_to_stage", stage_manager, response_text,
                                            summary, Ret(stage_manager, None, "", <<>>),
                                            FALSE),
                                 turn.shown, turn.answered)
    /\ UNCHANGED <<is_running, api_vars, user_input>>

\* The reply was shown; the conversation awaits the next input.
conversation_awaits ==
    /\ turn.op # "idle"
    /\ turn' = ConversationRecord(Idle(stage_manager), turn.shown, turn.answered)
    /\ UNCHANGED <<stage_manager, is_running, api_vars, user_input>>

ConversationNext ==
    \/ conversation_turn
    \/ conversation_awaits

ConversationSpec == ConversationInit /\ [][ConversationNext]_vars

\* No turn sends more than three requests, and none sends the same request twice.
AtMostThreeRequests ==
    LET sent == {i \in 1..Len(turn.calls) : turn.calls[i].requested}
    IN  /\ Cardinality(sent) <= 3
        /\ \A i, j \in sent : turn.calls[i].op = turn.calls[j].op => i = j

-----------------------------------------------------------------------------
(* Properties *)

\* The last operation was a call of route_to_stage.
Routed == turn.op = "route_to_stage"

\* Python falsiness of a pending slot: None or an empty container.
IsEmpty(pending) == ~Truthy(pending)

TenStageIds ==
    {"main", "create", "confirmation", "update_confirmation", "correct", "1_ci_data",
     "multiple_ci_data", "edit", "updating_ticket", "edit_confirmation"}

\* C1: after any sequence of route_to_stage calls current_stage is one of the
\* ten stage ids, and a switch_stage call with a name outside that set returns
\* False and changes nothing.
C1_StageAlwaysValid ==
    /\ stage_manager.current_stage \in TenStageIds
    /\ turn.op = "switch_stage" /\ turn.summary \notin TenStageIds
         => stage_manager = turn.before /\ ~turn.returned

\* switch_stage was asked for "Main" while the conversation held candidates.
C1_Witness ==
    /\ turn.op = "switch_stage" /\ turn.summary = "Main"
    /\ stage_manager.current_stage = "multiple_ci_data"
    /\ Truthy(stage_manager.pending_ci_data)

\* C2: whenever the session is in stage main, pending_ticket_data and
\* pending_ci_data are both empty.
C2_MainHasNoPendingData ==
    stage_manager.current_stage = "main"
        => IsEmpty(stage_manager.pending_ticket_data) /\ IsEmpty(stage_manager.pending_ci_data)

\* A turn that found ticket data and a configuration item stored came back to main.
C2_Witness ==
    /\ Routed /\ stage_manager.current_stage = "main"
    /\ Truthy(turn.before.pending_ticket_data) /\ Truthy(turn.before.pending_ci_data)

\* C3: in every stage, routing the label 'thoat' returns the label 'thoat' and
\* leaves pending_ticket_data and pending_ci_data empty.
C3_ExitClearsPendingData ==
    Routed /\ turn.summary = "thoat"
        => /\ turn.final_summary = "thoat"
           /\ IsEmpty(stage_manager.pending_ticket_data)
           /\ IsEmpty(stage_manager.pending_ci_data)

\* 'thoat' was routed in updating_ticket with a text reply: it came back as
\* 'thoat', and the ticket stored for editing is still pending.
C3_ExitKeptPendingData ==
    /\ Routed /\ turn.summary = "thoat"
    /\ turn.before.current_stage = "updating_ticket"
    /\ isinstance(turn.response_text, "str")
    /\ turn.final_summary = "thoat"
    /\ stage_manager.current_stage = "updating_ticket"
    /\ Truthy(stage_manager.pending_ticket_data)

\* The indices of the turn's gateway log at which `op` ran.
CallsOf(op) == {i \in 1..Len(turn.calls) : turn.calls[i].op = op}

\* The turn's (only) run of `op`.
TheCall(op) == turn.calls[CHOOSE i \in CallsOf(op) : TRUE]

\* The replies that apologise for a failure.
IsApology(response) ==
    /\ "msg" \in DOMAIN response
    /\ response.msg \in {"ticket_creation_error", "creation_error", "edit_error",
                         "update_api_error"}

\* C4: when a stage handler raises during route_to_stage, the reply is an
\* apology and afterwards the stage is main and pending_ticket_data is empty.
C4_HandlerErrorResetsToMain ==
    Routed /\ turn.raised
        => /\ IsApology(turn.response)
           /\ stage_manager.current_stage = "main"
           /\ IsEmpty(stage_manager.pending_ticket_data)

\* The turn ran the processing of the correct stage: it looked the serial up.
LookedUp == Routed /\ Cardinality(CallsOf("get_ci_with_sn")) = 1

\* The turn asked the remote API to create a ticket and got no ticket id.
CreateFailed ==
    /\ Cardinality(CallsOf("post_create_ticket")) = 1
    /\ ~Truthy(TheCall("post_create_ticket").result)

\* C5: when post_create_ticket fails during the processing of the correct
\* stage, the reply is an apology and afterwards the stage is main and
\* pending_ticket_data is empty.
C5_CreateFailureResetsToMain ==
    LookedUp /\ CreateFailed
        => /\ IsApology(turn.response)
           /\ stage_manager.current_stage = "main"
           /\ IsEmpty(stage_manager.pending_ticket_data)

\* The configuration items the turn's lookup came back with.
FoundCis ==
    IF Truthy(TheCall("get_ci_with_sn").result) THEN TheCall("get_ci_with_sn").result.v ELSE <<>>

\* The tickets the turn was told exist for the serial number.
FoundTickets ==
    IF CallsOf("get_all_ticket_for_sn") # {} /\ Truthy(TheCall("get_all_ticket_for_sn").result)
    THEN TheCall("get_all_ticket_for_sn").result.v
    ELSE <<>>

\* A ticket whose status is none of resolved, closed, cancelled.
NonTerminal(ticket) ==
    lower(Get(ticket, "status", <<>>)) \notin
        {<<"r", "e", "s", "o", "l", "v", "e", "d">>, <<"c", "l", "o", "s", "e", "d">>,
         <<"c", "a", "n", "c", "e", "l", "l", "e", "d">>}

OneCiWithOpenTicket ==
    /\ LookedUp /\ Len(FoundCis) = 1
    /\ \E i \in 1..Len(FoundTickets) : NonTerminal(FoundTickets[i])

\* C6: in the correct stage, when the serial resolves to exactly one
\* configuration item that has a ticket in a non-terminal status,
\* post_create_ticket is not called, the reply names an existing ticket id, the
\* configuration item is stored in pending_ci_data and the stage is 1_ci_data.
C6_DuplicateGuard ==
    OneCiWithOpenTicket
        => /\ CallsOf("post_create_ticket") = {}
           /\ IsMsg(turn.response, "active_tickets_warning")
           /\ \E i \in 1..Len(FoundTickets), j \in 1..Len(turn.response.data.tickets) :
                 /\ NonTerminal(FoundTickets[i])
                 /\ turn.response.data.tickets[j].ticket_id = FoundTickets[i].ticketid
           /\ stage_manager.pending_ci_data = List(<<FoundCis[1]>>)
           /\ stage_manager.current_stage = "1_ci_data"

\* The guard met a resolved ticket followed by an open one.
C6_Witness ==
    /\ OneCiWithOpenTicket
    /\ Len(FoundTickets) = 2 /\ ~NonTerminal(FoundTickets[1])
    /\ stage_manager.current_stage = "1_ci_data"

\* The ticket data the turn found stored.
Pending == turn.before.pending_ticket_data.v

ExpectedSummary ==
    IF Contains(Pending.problem_description, Pending.device_type)
    THEN Pending.problem_description
    ELSE Pending.device_type \o <<" ">> \o Pending.problem_description

\* C7: in the correct stage, when the lookup returns no configuration item,
\* post_create_ticket is called exactly once, with the pending serial number and
\* the summary device_type + " " + problem_description (problem_description
\* alone when it holds device_type); the ticket id it returns is reported and
\* the turn ends the conversation with 'thoat'.
C7_NoCiCreatesDirectly ==
    LookedUp /\ Len(FoundCis) = 0
        => /\ Cardinality(CallsOf("post_create_ticket")) = 1
           /\ TheCall("post_create_ticket").args = <<Pending.serial_number, ExpectedSummary>>
           /\ turn.final_summary = "thoat"
           /\ Truthy(TheCall("post_create_ticket").result)
                => /\ IsMsg(turn.response, "ticket_created")
                   /\ turn.response.data.ticket_id = TheCall("post_create_ticket").result.v

\* A ticket was created for a description that already names the device type.
C7_Witness ==
    /\ LookedUp /\ Len(FoundCis) = 0
    /\ Contains(Pending.problem_description, Pending.device_type)
    /\ IsMsg(turn.response, "ticket_created")

OneCiNoOpenTicket ==
    /\ LookedUp /\ Len(FoundCis) = 1
    /\ \A i \in 1..Len(FoundTickets) : ~NonTerminal(FoundTickets[i])

\* C8: in the correct stage, when the lookup returns exactly one configuration
\* item and no ticket of it is in a non-terminal status (also when it has no
\* tickets at all), post_create_ticket is called in that turn and the id it
\* returns is reported.
C8_OneCiNoOpenTicketCreates ==
    OneCiNoOpenTicket
        => /\ Cardinality(CallsOf("post_create_ticket")) = 1
           /\ Truthy(TheCall("post_create_ticket").result)
                => /\ IsMsg(turn.response, "ticket_created_for_device")
                   /\ turn.response.data.ticket_id = TheCall("post_create_ticket").result.v

\* C9: in the correct stage, when the lookup returns more than one
\* configuration item, post_create_ticket is not called, all candidates are
\* stored in pending_ci_data, the stage is multiple_ci_data and the reply lists
\* at most five of the candidates.
C9_ManyCisAskForSerial ==
    LookedUp /\ Len(FoundCis) > 1
        => /\ CallsOf("post_create_ticket") = {}
           /\ stage_manager.pending_ci_data = List(FoundCis)
           /\ stage_manager.current_stage = "multiple_ci_data"
           /\ IsMsg(turn.response, "multiple_ci_list")
           /\ Len(turn.response.data.ci_info) <= 5
           /\ \A j \in 1..Len(turn.response.data.ci_info) :
                 turn.response.data.ci_info[j].serial = CiSerial(FoundCis[j], NotAvailable)

\* More candidates than the reply can list came back.
C9_Witness ==
    /\ LookedUp /\ Len(FoundCis) > 5
    /\ Len(turn.response.data.ci_info) = 5

WrongLandsInCreate ==
    /\ stage_manager.current_stage = "create"
    /\ IsEmpty(stage_manager.pending_ticket_data)

\* A turn labelled 'sai' routed in a state an earlier 'sai' left behind.
WrongAgain ==
    /\ Routed /\ turn.summary = "sai"
    /\ turn.before.current_stage = "create"
    /\ IsEmpty(turn.before.pending_ticket_data)

\* A turn labelled 'sai' routed in the confirmation stage.
WrongInConfirmation ==
    Routed /\ turn.summary = "sai" /\ turn.before.current_stage = "confirmation"

CreateFieldMapTurn ==
    /\ Routed /\ turn.before.current_stage = "create"
    /\ isinstance(turn.response_text, "dict")
    /\ turn.summary \notin {"dung", "sai", "sua ticket", "thoat"}

RequiredFields == {"serial_number", "device_type", "problem_description"}

\* All three required values are there and not blank.
PayloadComplete(payload) ==
    \A field \in RequiredFields :
        field \in DOMAIN payload /\ strip(payload[field]) # <<>>

\* The three values as the payload gives them.
PayloadValues(payload) == [field \in RequiredFields |-> payload[field]]

\* The three values trimmed, the device type in lower case.
PayloadValuesNormalized(payload) ==
    [field \in RequiredFields |->
        IF field = "device_type" THEN lower(strip(payload[field])) ELSE strip(payload[field])]

\* The trimmed serial number has at least three characters, and no trimmed value
\* of fewer than five characters holds a placeholder word.
PayloadAcceptable(payload) ==
    /\ Len(strip(payload["serial_number"])) >= 3
    /\ \A field \in RequiredFields :
          Len(strip(payload[field])) < 5
              => \A word \in {<<"t", "e", "s", "t">>, <<"d", "u", "m", "m", "y">>,
                              <<"f", "a", "k", "e">>, <<"x", "x", "x">>,
                              <<"0", "0", "0", "0", "0", "0">>} :
                     ~Contains(lower(strip(payload[field])), word)

\* The turn left the session in create and stored nothing.
StayedInCreate ==
    /\ stage_manager.current_stage = "create"
    /\ stage_manager.pending_ticket_data = turn.before.pending_ticket_data

\* The statement of C11 as claimed: the turn ends in confirmation with the
\* payload's three values pending exactly when the payload is complete, and an
\* incomplete payload leaves the session in create with nothing stored.
C11_CompleteIffConfirmation ==
    CreateFieldMapTurn
        => LET payload == turn.response_text.v
           IN  /\ PayloadComplete(payload)
                    => /\ stage_manager.current_stage = "confirmation"
                       /\ stage_manager.pending_ticket_data = Dict(PayloadValues(payload))
               /\ ~PayloadComplete(payload) => StayedInCreate

\* C11: in the create stage with a field-map payload of string values, the turn
\* ends in confirmation with pending_ticket_data holding the payload's three
\* values, trimmed and the device type in lower case, if and only if the payload
\* is complete and acceptable (serial number of at least three characters, no
\* short placeholder value); otherwise the session stays in create and nothing
\* is stored.
C11_AcceptedIffConfirmation ==
    CreateFieldMapTurn
        => LET payload == turn.response_text.v
               accepted == PayloadComplete(payload) /\ PayloadAcceptable(payload)
           IN  /\ accepted
                    => /\ stage_manager.current_stage = "confirmation"
                       /\ stage_manager.pending_ticket_data =
                              Dict(PayloadValuesNormalized(payload))
               /\ ~accepted => StayedInCreate

\* A padded, upper-case payload was accepted and stored normalized.
C11_Witness ==
    /\ CreateFieldMapTurn
    /\ PayloadComplete(turn.response_text.v)
    /\ PayloadValues(turn.response_text.v) # PayloadValuesNormalized(turn.response_text.v)
    /\ stage_manager.current_stage = "confirmation"

\* validate_ticket_data has handed back its result.
Validated == turn.op = "validate_ticket_data" /\ turn.returned

\* The field is absent from the dict, or blank once trimmed.
AbsentOrBlank(d, field) == field \notin DOMAIN d \/ strip(d[field]) = <<>>

RoutedClassifierFailure ==
    /\ Routed
    /\ \/ IsMsg(turn.response_text, "chain_error") /\ turn.summary = "error"
       \/ IsMsg(turn.response_text, "json_error") /\ turn.summary = "json_error"

\* C13: routing the (text, 'error') or (text, 'json_error') pair of a failed
\* classifier call leaves current_stage, pending_ticket_data and pending_ci_data
\* unchanged, in every stage.
C13_ClassifierFailureChangesNothing ==
    RoutedClassifierFailure
        => /\ stage_manager.current_stage = turn.before.current_stage
           /\ stage_manager.pending_ticket_data = turn.before.pending_ticket_data
           /\ stage_manager.pending_ci_data = turn.before.pending_ci_data

\* Unparseable output was routed in the correct stage with a ticket pending.
C13_Witness ==
    /\ RoutedClassifierFailure /\ turn.summary = "json_error"
    /\ turn.before.current_stage = "correct"
    /\ Truthy(turn.before.pending_ticket_data)

\* A Python value, as opposed to nothing at all.
IsReply(response) == response.py \in {"None", "str", "dict", "list", "int"}

\* C14: no exception escapes the router: whatever the stage, the payload, the
\* label and the failures of the classifier and of the remote API, the call
\* returns a (reply, label) pair to its caller.
C14_RouterAlwaysReturns ==
    turn.op = "route_to_stage" => turn.returned /\ IsReply(turn.response)

\* The chain raised while a ticket was being edited, and the turn returned
\* the apology of get_response.
C14_Witness ==
    /\ turn.op = "route_to_stage" /\ turn.returned
    /\ IsMsg(turn.response_text, "chain_error")
    /\ turn.before.current_stage = "updating_ticket"
    /\ IsMsg(turn.response, "chain_error")

\* A handler raised and its own except clause answered.
C14_HandlerRaised ==
    turn.op = "route_to_stage" /\ turn.returned /\ turn.raised

\* The turn's lookup of the configuration item ended with make_api_request
\* giving up on a transport failure.
LookupGaveUp == LookedUp /\ TheCall("get_ci_with_sn").http = GaveUp

\* C15: when the lookup of the configuration item fails by transport failure,
\* the processing of the correct stage does not call post_create_ticket: the
\* reply is an apology and the stage afterwards is main with nothing pending.
C15_TransportFailureNeverCreates ==
    LookupGaveUp
        => /\ CallsOf("post_create_ticket") = {}
           /\ IsApology(turn.response)
           /\ stage_manager.current_stage = "main"
           /\ IsEmpty(stage_manager.pending_ticket_data)

\* The lookup gave up and a ticket was created all the same.
C15_CreatedAfterTransportFailure ==
    /\ LookupGaveUp
    /\ IsMsg(turn.response, "ticket_created")
    /\ Truthy(TheCall("post_create_ticket").result)

\* The last operation is a call of make_api_request.
GatewayCall == turn.op = "make_api_request"

\* A transient failure: a timeout, a connection error or a 5xx answer.
Transient(outcome) ==
    \/ outcome.kind \in {"Timeout", "ConnectionError"}
    \/ outcome.kind = "response" /\ outcome.status_code >= 500

AllTransient == \A i \in 1..Len(turn.calls) : Transient(turn.calls[i])

\* C16 as stated: a gateway operation issues at most 3 HTTP attempts in total;
\* after the third consecutive transient failure make_api_request has given up
\* and reported failure.
C16_AtMostThreeAttempts ==
    GatewayCall
        => /\ Len(turn.calls) <= 3
           /\ (Len(turn.calls) = 3 /\ AllTransient
                  => turn.returned /\ turn.response = None)

\* C16: a gateway operation issues at most 4 HTTP attempts in total, the first
\* and MAX_RETRY_ATTEMPTS = 3 retries; make_api_request gives up after the
\* fourth consecutive transient failure, not before, and reports failure
\* without another request.
C16_AtMostFourAttempts ==
    GatewayCall
        => /\ Len(turn.calls) <= 4
           /\ (Len(turn.calls) = 4 /\ AllTransient
                  => turn.returned /\ turn.response = None)
           /\ (turn.returned /\ AllTransient => Len(turn.calls) = 4)

\* Four attempts timed out and the call came back with None.
C16_Witness ==
    /\ GatewayCall /\ turn.returned /\ turn.response = None
    /\ Len(turn.calls) = 4
    /\ \A i \in 1..4 : turn.calls[i].kind = "Timeout"

\* The attempts of the call that were followed by another attempt, or will be.
FollowedByAnother == {i \in 1..Len(turn.calls) : i < Len(turn.calls) \/ ~turn.returned}

IsStatus(outcome, code) == outcome.kind = "response" /\ outcome.status_code = code

\* The call ended with attempt i and handed back `value`.
EndedAt(i, value) == i = Len(turn.calls) /\ turn.returned /\ turn.response = value

\* C17 as stated: a 404 ends the operation at once with None, a 200 ends it at
\* once with the response body, and only transient failures lead to another
\* attempt.
C17_OnlyTransientRetried ==
    GatewayCall
        => \A i \in 1..Len(turn.calls) :
              /\ (IsStatus(turn.calls[i], 404) => EndedAt(i, None))
              /\ (IsStatus(turn.calls[i], 200) => EndedAt(i, turn.calls[i].json))
              /\ (i \in FollowedByAnother => Transient(turn.calls[i]))

\* C17: a 404 ends the operation at once with None, a 200 with a JSON body ends
\* it at once with that body, and only a request exception (Timeout,
\* ConnectionError or another RequestException) or a response that is neither
\* of these two leads to another attempt.
C17_EveryFailureRetried ==
    GatewayCall
        => \A i \in 1..Len(turn.calls) :
              /\ (IsStatus(turn.calls[i], 404) => EndedAt(i, None))
              /\ (IsStatus(turn.calls[i], 200) /\ turn.calls[i].json # NotJson
                     => EndedAt(i, turn.calls[i].json))
              /\ (i \in FollowedByAnother
                     => \/ turn.calls[i].kind \in {"Timeout", "ConnectionError",
                                                   "RequestException"}
                        \/ /\ turn.calls[i].kind = "response"
                           /\ ~IsStatus(turn.calls[i], 404)
                           /\ ~(IsStatus(turn.calls[i], 200) /\ turn.calls[i].json # NotJson))

\* A 400 was retried and the retry's 404 ended the call with None.
C17_Witness ==
    /\ GatewayCall /\ Len(turn.calls) = 2
    /\ IsStatus(turn.calls[1], 400) /\ IsStatus(turn.calls[2], 404)
    /\ turn.returned /\ turn.response = None

\* C18: every call of make_api_request returns, after at most
\* MAX_RETRY_ATTEMPTS + 1 attempts.
C18_MakeApiRequestReturns ==
    <>(GatewayCall /\ turn.returned /\ Len(turn.calls) <= MAX_RETRY_ATTEMPTS + 1)

\* The call returned a body on its last attempt, after three failures.
C18_Witness ==
    /\ GatewayCall /\ turn.returned /\ Len(turn.calls) = MAX_RETRY_ATTEMPTS + 1
    /\ IsStatus(turn.calls[4], 200) /\ turn.response = turn.calls[4].json
    /\ Truthy(turn.response)

\* C19: two /chat requests that arrive without a known session_id get
\* distinct session ids and distinct session objects, also within one second
\* of the clock: no two sessions ever constructed were handed the same id.
C19_DistinctSessionIds ==
    \A i, j \in 1..Len(sessions) :
        i # j => sessions[i].session_id # sessions[j].session_id

\* Two requests without a session id arrived within a second: both clients hold
\* the same id, and active_sessions has the second session under it.
C19_SharedSessionId ==
    /\ Len(sessions) = 2
    /\ sessions[1].session_id = sessions[2].session_id
    /\ turn.op = "chat" /\ turn.created
    /\ active_sessions[turn.session_id] = 2

\* The spellings edit.py compares the label with.  The classifier's prompts
\* (configuration/config.py) spell the labels as utils.py and create.py do.
EditLiterals ==
    {MacRoman(label) : label \in {"thoat", "tao ticket", "sua ticket", "dung",
                                  "cap nhat ticket", "cho thong tin cap nhat",
                                  "cho xac nhan cap nhat edit"}}

\* The session is in the middle of an edit.
Trapped == stage_manager.current_stage \in {"updating_ticket", "edit_confirmation"}

\* No turn leaves updating_ticket and edit_confirmation unless the classifier
\* answers with one of edit.py's own spellings.
TrappedIsClosed ==
    [][Trapped /\ ~(turn'.op = "route_to_stage" /\ turn'.summary \in EditLiterals)
          => Trapped']_vars

\* C20: there are no trap states: from every reachable state some finite
\* sequence of user turns leads to main with pending_ticket_data empty.  Turns
\* labelled as the prompts spell the labels never leave updating_ticket and
\* edit_confirmation (TrappedIsClosed), so the claim requires that no session
\* ever is in one of the two.
C20_NoTrapStates == ~Trapped

\* 'sua ticket' with a ticket id that exists took the session from main to
\* updating_ticket, with the ticket pending.
C20_EnteredTrap ==
    /\ Routed /\ turn.summary = "sua ticket" /\ turn.before.current_stage = "main"
    /\ stage_manager.current_stage = "updating_ticket"
    /\ Truthy(stage_manager.pending_ticket_data)

\* The input just read is an exit word, in whatever case.
ExitWordTyped(input) ==
    /\ input # None
    /\ \E word \in exit_keywords :
          /\ Len(input.v) = Len(word)
          /\ \A i \in 1..Len(word) : LowerChar(input.v[i]) = word[i]

\* C21: in the loop of ChatbotSession.run, when the input is one of the exit
\* words (in any case) the loop ends in that iteration without a call of the
\* classifier or the router, whatever the stage: is_running becomes false, and
\* the StageManager and the last turn stay as they were.
C21_ExitWordEndsLoop ==
    [][is_running /\ turn.op = "idle" /\ ExitWordTyped(user_input')
          => /\ ~is_running'
             /\ stage_manager' = stage_manager
             /\ turn' = turn]_vars

\* 'Thoat' ended a session that had a ticket waiting for confirmation.
C21_Witness ==
    /\ ~is_running /\ user_input = Str(<<"T", "h", "o", "a", "t">>)
    /\ turn.op = "idle"
    /\ stage_manager.current_stage = "confirmation"

\* The turn was routed in stage main.
FromMain == Routed /\ turn.before.current_stage = "main"

\* C22 as stated: from main, for every payload, 'tao ticket' leaves the
\* session in create, 'sua ticket' leaves it in edit, and any other label
\* leaves it in main.
C22_MainTransitions ==
    FromMain
        => /\ (turn.summary = "tao ticket" => stage_manager.current_stage = "create")
           /\ (turn.summary = "sua ticket" => stage_manager.current_stage = "edit")
           /\ (turn.summary \notin {"tao ticket", "sua ticket"}
                  => stage_manager.current_stage = "main")

\* The turn asked the gateway for a ticket and got one.
FoundTicketToEdit ==
    /\ CallsOf("get_ticket_by_id") # {}
    /\ Truthy(TheCall("get_ticket_by_id").result)

\* C22: from main, for every payload, 'tao ticket' leaves the session in
\* create; 'sua ticket' leaves it in edit, or in updating_ticket when the
\* payload carries a ticket id that the gateway finds; any other label leaves
\* it in main.
C22_MainTransitionsWithTicketId ==
    FromMain
        => /\ (turn.summary = "tao ticket" => stage_manager.current_stage = "create")
           /\ (turn.summary = "sua ticket"
                  => stage_manager.current_stage =
                        IF FoundTicketToEdit THEN "updating_ticket" ELSE "edit")
           /\ (turn.summary \notin {"tao ticket", "sua ticket"}
                  => stage_manager.current_stage = "main")

\* 'sua ticket' came with a ticket id that the gateway does not know: the
\* session is in edit.
C22_Witness ==
    /\ FromMain /\ turn.summary = "sua ticket"
    /\ CallsOf("get_ticket_by_id") # {} /\ ~FoundTicketToEdit
    /\ stage_manager.current_stage = "edit"

\* C23: a flow switch goes straight to the other flow's entry stage: in
\* create, 'sua ticket' leaves the session in edit; in edit, 'tao ticket' leaves
\* it in create.
C23_FlowSwitch ==
    Routed
        => /\ (turn.before.current_stage = "create" /\ turn.summary = "sua ticket"
                  => stage_manager.current_stage = "edit")
           /\ (turn.before.current_stage = "edit" /\ turn.summary = "tao ticket"
                  => stage_manager.current_stage = "create")

\* 'sua ticket' in create was answered "switched to edit" and the session is in main.
C23_SwitchLandedInMain ==
    /\ Routed /\ turn.before.current_stage = "create" /\ turn.summary = "sua ticket"
    /\ IsMsg(turn.response, "switched_to_edit")
    /\ stage_manager.current_stage = "main"

\* 'tao ticket' in edit left the session in main.
C23_EditSwitchLandedInMain ==
    /\ Routed /\ turn.before.current_stage = "edit" /\ turn.summary = "tao ticket"
    /\ stage_manager.current_stage = "main"

\* The turn was routed in confirmation with a field map as payload.
FieldMapInConfirmation ==
    /\ Routed /\ turn.before.current_stage = "confirmation"
    /\ isinstance(turn.response_text, "dict")
    /\ Truthy(turn.before.pending_ticket_data)

\* The fields a field map names, and the value it gives each.
NamedFields(payload) ==
    IF {"field_to_update", "new_value"} \subseteq DOMAIN payload
    THEN {payload["field_to_update"]} \cap RequiredFields
    ELSE DOMAIN payload \cap RequiredFields

NamedValue(payload, field) ==
    IF {"field_to_update", "new_value"} \subseteq DOMAIN payload
    THEN payload["new_value"]
    ELSE payload[field]

\* `after` is `before` with the fields the payload names set to its values.
Merged(before, payload, after) ==
    /\ DOMAIN after = DOMAIN before \cup NamedFields(payload)
    /\ \A field \in DOMAIN after :
          after[field] = IF field \in NamedFields(payload)
                         THEN NamedValue(payload, field)
                         ELSE before[field]

\* C24: in confirmation a field-map payload is merged into pending_ticket_data
\* (only serial_number, device_type and problem_description can change, every
\* field not named keeps its value) and the turn ends with the session in
\* confirmation, whatever the label.
C24_FieldMapMergedWhateverLabel ==
    FieldMapInConfirmation
        => /\ stage_manager.current_stage = "confirmation"
           /\ isinstance(stage_manager.pending_ticket_data, "dict")
           /\ Merged(turn.before.pending_ticket_data.v, turn.response_text.v,
                     stage_manager.pending_ticket_data.v)

\* A field map labelled 'dung' was handed back as the reply, nothing was
\* merged and the session is in update_confirmation.
C24_FieldMapNotMerged ==
    /\ FieldMapInConfirmation /\ turn.summary = "dung"
    /\ NamedFields(turn.response_text.v) # {}
    /\ turn.response = turn.response_text
    /\ stage_manager.pending_ticket_data = turn.before.pending_ticket_data
    /\ stage_manager.current_stage = "update_confirmation"

\* With the label 'cap nhat thong tin' the field map is merged and the session
\* is back in confirmation.
C24_MergedOnUpdateLabel ==
    FieldMapInConfirmation /\ turn.summary = "cap nhat thong tin"
        => /\ stage_manager.current_stage = "confirmation"
           /\ Merged(turn.before.pending_ticket_data.v, turn.response_text.v,
                     stage_manager.pending_ticket_data.v)

\* The turn was routed in confirmation with the label 'sua ticket'.
EditLabelInConfirmation ==
    /\ Routed /\ turn.before.current_stage = "confirmation"
    /\ turn.summary = "sua ticket"

\* C25: in confirmation, the label 'sua ticket' clears pending_ticket_data and
\* leaves the session in stage edit.
C25_EditLabelClearsAndSwitches ==
    EditLabelInConfirmation
        => /\ stage_manager.current_stage = "edit"
           /\ ~Truthy(stage_manager.pending_ticket_data)

\* A text reply labelled 'sua ticket' left the session in confirmation with
\* the ticket still pending, relabelled 'cho xac nhan'.
C25_EditLabelIgnored ==
    /\ EditLabelInConfirmation /\ isinstance(turn.response_text, "str")
    /\ stage_manager.current_stage = "confirmation"
    /\ Truthy(stage_manager.pending_ticket_data)
    /\ stage_manager.pending_ticket_data = turn.before.pending_ticket_data
    /\ turn.final_summary = "cho xac nhan"

\* No turn labelled 'sua ticket' in confirmation ends in stage edit.
C25_EditNeverReachedFromConfirmation ==
    EditLabelInConfirmation => stage_manager.current_stage # "edit"

\* The confirm/processing step ran with nothing stored: confirmation answered
\* 'dung' with a text reply, or correct asked to process ('dang xu ly').
ProcessedWithoutTicketData ==
    /\ Routed /\ ~Truthy(turn.before.pending_ticket_data)
    /\ \/ /\ turn.before.current_stage = "confirmation"
          /\ ~isinstance(turn.response_text, "dict") /\ turn.summary = "dung"
       \/ /\ turn.before.current_stage = "correct" /\ turn.summary = "dang xu ly"

\* C26: when the confirm/processing step runs with empty pending_ticket_data,
\* no gateway call is made, the reply is the generic error message asking to
\* try again, and the session is reset to main.
C26_StateErrorGuard ==
    ProcessedWithoutTicketData
        => /\ turn.calls = <<>>
           /\ IsMsg(turn.response, "ticket_creation_error")
           /\ stage_manager = reset_to_main(turn.before)

\* Confirmation was answered 'dung' with nothing stored: the error reply was
\* given without a gateway call, and the session is left in stage correct.
C26_LeftInCorrect ==
    /\ ProcessedWithoutTicketData /\ turn.before.current_stage = "confirmation"
    /\ turn.calls = <<>>
    /\ IsMsg(turn.response, "ticket_creation_error")
    /\ turn.final_summary = "thoat"
    /\ stage_manager.current_stage = "correct"

\* Everything the claim says but the reset holds: no gateway call, the error
\* reply, the label 'thoat', and nothing stored afterwards.
C26_GuardWithoutReset ==
    ProcessedWithoutTicketData
        => /\ turn.calls = <<>>
           /\ IsMsg(turn.response, "ticket_creation_error")
           /\ turn.final_summary = "thoat"
           /\ stage_manager.current_stage = "correct"
           /\ ~Truthy(stage_manager.pending_ticket_data)

\* The turn was routed in stage 1_ci_data.
RoutedInSingleCi == Routed /\ turn.before.current_stage = "1_ci_data"

\* C27: in 1_ci_data the label 'tao' calls post_create_ticket once, for the
\* stored configuration item, and ends the conversation; 'Khong tao' never
\* calls post_create_ticket, ends the conversation and leaves
\* pending_ticket_data and pending_ci_data empty; any other label calls no
\* gateway operation.
C27_SingleCiLabels ==
    RoutedInSingleCi
        => /\ (turn.summary = "tao"
                  => /\ Len(turn.calls) = 1
                     /\ turn.calls[1].op = "post_create_ticket"
                     /\ turn.calls[1].requested
                     /\ turn.calls[1].args[1]
                            = CiSerial(turn.before.pending_ci_data.v[1], <<>>)
                     /\ turn.final_summary = "thoat")
           /\ (turn.summary = "Khong tao"
                  => /\ turn.calls = <<>>
                     /\ turn.final_summary = "thoat"
                     /\ ~Truthy(stage_manager.pending_ticket_data)
                     /\ ~Truthy(stage_manager.pending_ci_data))
           /\ (turn.summary \notin {"tao", "Khong tao"} => turn.calls = <<>>)

\* 'Khong tao' was answered in 1_ci_data with a ticket and a configuration
\* item stored, and both are gone.
C27_Witness ==
    /\ RoutedInSingleCi /\ turn.summary = "Khong tao"
    /\ Truthy(turn.before.pending_ticket_data) /\ Truthy(turn.before.pending_ci_data)
    /\ ~Truthy(stage_manager.pending_ticket_data)
    /\ ~Truthy(stage_manager.pending_ci_data)

\* 'tao' was answered in 1_ci_data and the ticket was created.
C27_Created ==
    /\ RoutedInSingleCi /\ turn.summary = "tao"
    /\ Len(turn.calls) = 1 /\ Truthy(turn.calls[1].result)
    /\ IsMsg(turn.response, "ticket_created_for_device")

\* A serial number was supplied in multiple_ci_data (label 'kiem tra serial
\* number') while candidates are stored.
SerialSupplied ==
    /\ Routed /\ turn.before.current_stage = "multiple_ci_data"
    /\ turn.summary = "kiem tra serial number"
    /\ Truthy(turn.before.pending_ci_data)

Candidates == turn.before.pending_ci_data.v

\* The stored candidates whose serial number is the supplied payload.
MatchingCandidates ==
    {i \in 1..Len(Candidates) :
        /\ turn.response_text.py = "str" /\ "v" \in DOMAIN turn.response_text
        /\ \E key \in {"SerialNum", "serial_number"} \cap DOMAIN Candidates[i] :
              Candidates[i][key] = turn.response_text.v}

FirstMatchingCandidate ==
    Candidates[CHOOSE i \in MatchingCandidates : \A j \in MatchingCandidates : i <= j]

\* What the remote API answered to the requests of the turn.
AnswersGiven ==
    [op \in DOMAIN NoAnswers |->
        LET asked == {i \in 1..Len(turn.calls) :
                         turn.calls[i].requested /\ OracleOf(turn.calls[i].op) = op}
        IN  IF asked = {} THEN None ELSE turn.calls[CHOOSE i \in asked : TRUE].http]

\* The one-result case for the first matching candidate.
OneResultCase ==
    _handle_single_ci_data_processing(FirstMatchingCandidate,
                                      turn.before.pending_ticket_data.v,
                                      turn.before, AnswersGiven, <<>>)

C28_Unmatched ==
    /\ SerialSupplied /\ MatchingCandidates = {}
    /\ turn.response_text.py = "str"
    /\ IsMsg(turn.response, "serial_not_in_list")

\* A field map was handed to the edit stage, with a label that asks neither
\* for the other flow nor for the exit (in either spelling).
FieldMapInEdit ==
    /\ Routed /\ turn.before.current_stage = "edit"
    /\ isinstance(turn.response_text, "dict")
    /\ turn.summary \notin {"thoat", "tao ticket", MacRoman("thoat"), MacRoman("tao ticket")}

ValidTicketIdGiven == validate_ticket_id(turn.response_text.v).is_valid

\* The ticket get_ticket_by_id handed back.
TicketFetched == TheCall("get_ticket_by_id").result

\* C29: in edit, a payload carrying a valid ticket id whose ticket exists
\* stores {ticket_id, ticket_info} in pending_ticket_data and moves the session
\* to updating_ticket; if the gateway reports the ticket absent, the reply says
\* so, nothing is stored and the conversation ends (label 'thoat'); a payload
\* with a missing or badly formatted ticket id calls no gateway operation and
\* keeps the stage edit.
C29_TicketIdInEdit ==
    FieldMapInEdit
        => IF ValidTicketIdGiven
           THEN /\ Len(turn.calls) = 1 /\ CallsOf("get_ticket_by_id") = {1}
                /\ IF Truthy(TicketFetched)
                   THEN /\ stage_manager.current_stage = "updating_ticket"
                        /\ stage_manager.pending_ticket_data
                              = Dict([ticket_id |-> turn.response_text.v["ticket_id"],
                                      ticket_info |-> TicketFetched.v])
                   ELSE /\ IsMsg(turn.response, "ticket_not_found")
                        /\ stage_manager.pending_ticket_data
                              = turn.before.pending_ticket_data
                        /\ turn.final_summary = "thoat"
           ELSE /\ turn.calls = <<>>
                /\ stage_manager.current_stage = "edit"

\* The ticket was asked for and is absent: the reply says so, but its label
\* is edit.py's own spelling of 'thoat' and the session is still in edit.
C29_AbsentTicketDoesNotEnd ==
    /\ FieldMapInEdit /\ ValidTicketIdGiven
    /\ ~Truthy(TicketFetched)
    /\ IsMsg(turn.response, "ticket_not_found")
    /\ turn.final_summary = MacRoman("thoat")
    /\ stage_manager = turn.before

\* All of C29 but the end of the conversation.
C29_ExceptTheEnd ==
    FieldMapInEdit
        => IF ValidTicketIdGiven
           THEN /\ Len(turn.calls) = 1 /\ CallsOf("get_ticket_by_id") = {1}
                /\ IF Truthy(TicketFetched)
                   THEN /\ stage_manager.current_stage = "updating_ticket"
                        /\ stage_manager.pending_ticket_data
                              = Dict([ticket_id |-> turn.response_text.v["ticket_id"],
                                      ticket_info |-> TicketFetched.v])
                   ELSE /\ IsMsg(turn.response, "ticket_not_found")
                        /\ stage_manager = turn.before
           ELSE /\ turn.calls = <<>>
                /\ stage_manager.current_stage = "edit"

\* A ticket was found from stage edit and stored for updating.
C29_TicketStored ==
    /\ FieldMapInEdit /\ ValidTicketIdGiven /\ Truthy(TicketFetched)
    /\ stage_manager.current_stage = "updating_ticket"

\* An update field map was handed to updating_ticket, with a label that does
\* not ask for the exit (in either spelling).
FieldMapInUpdatingTicket ==
    /\ Routed /\ turn.before.current_stage = "updating_ticket"
    /\ isinstance(turn.response_text, "dict")
    /\ turn.summary \notin {"thoat", MacRoman("thoat")}

\* pending_ticket_data is what it was before the turn, plus the payload as
\* update_data.
UpdateDataStored ==
    /\ isinstance(stage_manager.pending_ticket_data, "dict")
    /\ isinstance(turn.before.pending_ticket_data, "dict")
    /\ LET after == stage_manager.pending_ticket_data.v
           before == turn.before.pending_ticket_data.v
       IN  /\ DOMAIN after = DOMAIN before \cup {"update_data"}
           /\ after["update_data"] = turn.response_text.v
           /\ \A key \in DOMAIN before \ {"update_data"} : after[key] = before[key]
           /\ {"ticket_id", "ticket_info"} \subseteq DOMAIN after

\* C30: in updating_ticket every payload that is an update field map is stored
\* as update_data of pending_ticket_data (ticket_id and ticket_info are kept)
\* and the session moves to edit_confirmation, without calling the gateway.
C30_UpdateFieldMapStored ==
    FieldMapInUpdatingTicket
        => /\ UpdateDataStored
           /\ stage_manager.current_stage = "edit_confirmation"
           /\ turn.calls = <<>>

\* A field map labelled 'cap nhat ticket', as the classifier spells it, was
\* dropped: nothing was stored and the session is still in updating_ticket.
C30_UpdateDropped ==
    /\ FieldMapInUpdatingTicket /\ turn.summary = "cap nhat ticket"
    /\ stage_manager = turn.before
    /\ turn.calls = <<>>

\* Only under edit.py's own spelling of the label, and with a ticket stored,
\* is the field map stored.
C30_StoredUnderEditSpelling ==
    FieldMapInUpdatingTicket
        => /\ turn.calls = <<>>
           /\ IF /\ turn.summary = MacRoman("cap nhat ticket")
                 /\ Truthy(turn.before.pending_ticket_data)
              THEN UpdateDataStored /\ stage_manager.current_stage = "edit_confirmation"
              ELSE stage_manager = turn.before

\* A turn was routed in edit_confirmation while a ticket and its update data
\* are stored.
RoutedInEditConfirmation ==
    /\ Routed /\ turn.before.current_stage = "edit_confirmation"
    /\ isinstance(turn.before.pending_ticket_data, "dict")
    /\ {"ticket_id", "ticket_info", "update_data"}
          \subseteq DOMAIN turn.before.pending_ticket_data.v

StoredForEdit == turn.before.pending_ticket_data.v

\* post_update_ticket ran once, with the stored ticket id and update data.
UpdateRequestedForStored ==
    /\ Len(turn.calls) = 1 /\ turn.calls[1].op = "post_update_ticket"
    /\ turn.calls[1].args = <<StoredForEdit["ticket_id"], StoredForEdit["update_data"]>>

UpdateSucceeded ==
    /\ Truthy(turn.calls[1].result)
    /\ Get(turn.calls[1].result.v, "response_code", 0) = STATUS_SUCCESS

\* ticket_id and ticket_info are stored as they were before the turn.
TicketKeptForEdit ==
    /\ isinstance(stage_manager.pending_ticket_data, "dict")
    /\ {"ticket_id", "ticket_info"} \subseteq DOMAIN stage_manager.pending_ticket_data.v
    /\ \A key \in {"ticket_id", "ticket_info"} :
          stage_manager.pending_ticket_data.v[key] = StoredForEdit[key]

\* C31: in edit_confirmation the label 'dung' calls post_update_ticket with
\* the stored ticket id and update data; on success the conversation ends
\* (label 'thoat') with pending data cleared; on failure the session moves to
\* updating_ticket with ticket_id and ticket_info still stored.
C31_CorrectRunsUpdate ==
    RoutedInEditConfirmation /\ turn.summary = "dung"
        => /\ UpdateRequestedForStored
           /\ IF UpdateSucceeded
              THEN /\ turn.final_summary = "thoat"
                   /\ IsEmpty(stage_manager.pending_ticket_data)
                   /\ IsEmpty(stage_manager.pending_ci_data)
              ELSE /\ stage_manager.current_stage = "updating_ticket"
                   /\ TicketKeptForEdit

\* 'dung' was answered in edit_confirmation and was not understood: no
\* update was requested and the session is as it was.
C31_CorrectNotUnderstood ==
    /\ RoutedInEditConfirmation /\ turn.summary = "dung"
    /\ turn.calls = <<>>
    /\ IsMsg(turn.response, "answer_dung_or_sai")
    /\ stage_manager = turn.before

\* Under edit.py's own spelling of 'dung' the update is requested for the
\* stored ticket; on success everything pending is cleared and the stage is
\* main, on failure the session is left as it was, in edit_confirmation; both
\* replies carry edit.py's spelling of 'thoat'.
C31_UnderEditSpelling ==
    RoutedInEditConfirmation /\ turn.summary = MacRoman("dung")
        => /\ UpdateRequestedForStored
           /\ turn.final_summary = MacRoman("thoat")
           /\ IF UpdateSucceeded
              THEN /\ stage_manager.current_stage = "main"
                   /\ IsEmpty(stage_manager.pending_ticket_data)
              ELSE stage_manager = turn.before

\* The update failed under edit.py's spelling of 'dung'.
C31_UpdateFailed ==
    /\ RoutedInEditConfirmation /\ turn.summary = MacRoman("dung")
    /\ UpdateRequestedForStored /\ ~UpdateSucceeded
    /\ stage_manager.current_stage = "edit_confirmation"

Chatted == turn.op = "chat"

\* The ids of the sessions that chat has deleted after an exit.
EndedSessionIds == {sessions[i].session_id : i \in {j \in 1..Len(sessions) : sessions[j].ended}}

\* The request that is being served carries the id of a session that ended,
\* for the first time since its exit.
CarriesEndedId ==
    /\ turn'.op = "chat" /\ turn' # turn
    /\ Truthy(turn'.request_session_id)
    /\ \E i \in 1..Len(sessions) :
          /\ sessions[i].ended /\ ~sessions[i].revisited
          /\ sessions[i].session_id = turn'.request_session_id.v

\* The request is served by a new ChatbotSession: one more object exists, it
\* serves the turn, and the turn found it in main with nothing pending and an
\* empty history (its history now holds the two messages of this turn).
ServedByNewSession ==
    /\ turn'.created
    /\ Len(sessions') = Len(sessions) + 1 /\ turn'.session = Len(sessions')
    /\ Len(sessions'[turn'.session].chat_history) = 2

\* C33: after a turn of /chat whose final label is 'thoat' the session id is
\* no longer in active_sessions, and the next request that carries that id is
\* served by a new session, which starts in main with nothing pending and an
\* empty history.
C33_ExitEndsSession ==
    [][/\ (turn'.op = "chat" /\ turn' # turn /\ turn'.summary = "thoat"
              => turn'.session_id \notin DOMAIN active_sessions')
       /\ (CarriesEndedId => ServedByNewSession)]_vars

\* The first request to carry the id of a session that has ended was served
\* by another session, which a request without an id had registered under
\* the same id and which already held a conversation.
C33_ServedByAnotherConversation ==
    /\ Chatted /\ ~turn.created
    /\ turn.request_session_id = Str(sessions[1].session_id)
    /\ sessions[1].ended /\ sessions[1].revisited
    /\ turn.session = 2 /\ sessions[2].session_id = sessions[1].session_id
    /\ Len(sessions[2].chat_history) = 4

\* What holds of every exit: the id is deleted, and a session that has ended
\* serves no further turn, so nothing of it is seen again.
C33_EndedSessionNeverServed ==
    [][turn'.op = "chat" /\ turn' # turn
          => /\ (turn'.summary = "thoat"
                    => turn'.session_id \notin DOMAIN active_sessions')
             /\ (turn'.session <= Len(sessions) => ~sessions[turn'.session].ended)
             /\ (turn'.created
                    => Len(sessions'[turn'.session].chat_history) = 2)]_vars

\* An ended session's id was sent again and a new session served it.
C33_NewSessionAfterExit ==
    /\ Chatted /\ turn.created
    /\ Truthy(turn.request_session_id)
    /\ \E i \in 1..Len(sessions) :
          /\ sessions[i].ended /\ sessions[i].session_id = turn.request_session_id.v
          /\ i # turn.session

\* The coroutines of chat that have started and not returned.
InFlight == IF turn.op = "event_loop" THEN turn.running ELSE {}

\* C34: turns of one session never interleave: while a turn of a session is
\* in flight no other turn of that session is, and the session the turn acts
\* on is changed by this turn alone, from what it found when it started to
\* what it records when it returns.
C34_TurnsNeverInterleave ==
    \A coroutine \in InFlight :
        /\ \A other \in InFlight : other.session = coroutine.session => other = coroutine
        /\ sessions[coroutine.session].chat_history = coroutine.found.chat_history
        /\ (coroutine.line = 48 => sessions[coroutine.session] = coroutine.found)

\* Two requests carrying the same session id have been served, the second
\* by the session as the first left it.
C34_Witness ==
    /\ turn.op = "event_loop"
    /\ \E first, second \in turn.served :
          /\ first.session = second.session /\ first.n # second.n
          /\ second.found.chat_history
                = update_chat_history(first.found.chat_history, Str(<<"h", "i">>),
                                      first.response)
          /\ second.found.stage_manager.current_stage = "create"

\* The messages a processed turn has to add to the history: the user's
\* message, then the reply.
TurnMessages(message, response) == <<HumanMessage(message), AIMessage(response)>>

\* C35: every processed turn appends the user's message and then the
\* assistant's reply to the history of the session, in that order, including
\* the turn that ends the conversation and the turn that reports a created
\* ticket.
C35_TurnRecorded ==
    turn.op = "run" /\ turn.processed
        => sessions[1].chat_history
              = turn.before.chat_history \o TurnMessages(user_input, turn.response)

\* The turn that ended the conversation recorded the reply alone.
C35_ExitTurnLostUserMessage ==
    /\ turn.op = "run" /\ turn.processed /\ turn.summary = "thoat"
    /\ ~sessions[1].is_running
    /\ sessions[1].chat_history = Append(turn.before.chat_history, AIMessage(turn.response))

\* The turn that reported a created ticket recorded the reply alone.
C35_CreatedTurnLostUserMessage ==
    /\ turn.op = "run" /\ turn.processed /\ turn.summary = "ticket da duoc tao"
    /\ sessions[1].chat_history = Append(turn.before.chat_history, AIMessage(turn.response))

\* Every turn of ChatbotSession.run with another label is recorded whole.
C35_OtherTurnsRecorded ==
    (/\ turn.op = "run" /\ turn.processed
     /\ turn.summary \notin {"thoat", "ticket da duoc tao"})
        => sessions[1].chat_history
              = turn.before.chat_history \o TurnMessages(user_input, turn.response)

\* Every turn of POST /chat is recorded whole, the turn of an exit too.
C35_ChatTurnsRecorded ==
    [][turn'.op = "chat" /\ turn' # turn
          => sessions'[turn'.session].chat_history
                = (IF turn'.created THEN <<>> ELSE sessions[turn'.session].chat_history)
                     \o TurnMessages(turn'.message, turn'.response)]_vars

\* The earlier message sequence is the beginning of the later one.
IsPrefix(earlier, later) ==
    /\ Len(earlier) <= Len(later)
    /\ SubSeq(later, 1, Len(earlier)) = earlier

create_new_session_called(success) == ~success

\* C37: a reply of /chat upon which the page starts a new chat belongs to a
\* turn whose final label is 'thoat', whose session has ended.
C37_NewChatOnlyOnExit ==
    (turn.op = "chat" /\ create_new_session_called(turn.success))
       => (turn.summary = "thoat" /\ sessions[turn.session].ended)

\* C37: the reply of a turn whose processing failed carries success = false,
\* while its session is registered still.
C37_ErrorTurnStartsNewChat ==
    /\ turn.op = "chat"
    /\ turn.summary = "error"
    /\ create_new_session_called(turn.success)
    /\ turn.session_id \in DOMAIN active_sessions
    /\ ~sessions[turn.session].ended

\* C37: apart from the turns whose processing failed, success is false on the
\* exit turn alone.
C37_ExceptErrorTurns ==
    (turn.op = "chat" /\ turn.summary # "error")
       => (create_new_session_called(turn.success) <=> turn.summary = "thoat")

\* The calls of post_create_ticket made in the turn.
CreateTicketCalls == {i \in 1..Len(turn.calls) : turn.calls[i].op = "post_create_ticket"}

\* C38: a turn calls post_create_ticket only while a ticket is stored whose
\* values are those of the last confirmation message shown, to which 'dung' was
\* answered in this turn or before; stored values changed since are shown again
\* before any call.
C38_CreateOnlyConfirmed ==
    [][(CreateTicketCalls' # {})
          => /\ Truthy(stage_manager.pending_ticket_data)
             /\ turn.shown = format_ticket_confirmation(stage_manager.pending_ticket_data.v)
             /\ turn'.answered]_vars

\* C38: a ticket was created in a later turn than the one that answered 'dung'.
C38_Witness ==
    /\ Routed /\ CreateTicketCalls # {}
    /\ turn.summary # "dung"
    /\ turn.answered
    /\ turn.shown = format_ticket_confirmation(turn.before.pending_ticket_data.v)

\* The calls of post_update_ticket made in the turn.
UpdateTicketCalls == {i \in 1..Len(turn.calls) : turn.calls[i].op = "post_update_ticket"}

\* Every call of post_update_ticket of the turn carries the ticket id and the
\* update data stored when the turn began in edit_confirmation.
UpdatesAreForStored ==
    /\ RoutedInEditConfirmation
    /\ \A i \in UpdateTicketCalls :
          turn.calls[i].args = <<StoredForEdit["ticket_id"], StoredForEdit["update_data"]>>

\* C39: a turn calls post_update_ticket only if it starts in edit_confirmation
\* with the label 'dung', and then with the ticket id and the update data
\* stored in pending_ticket_data; no other stage or label triggers an update.
C39_UpdateOnlyOnCorrect ==
    (Routed /\ UpdateTicketCalls # {})
       => (turn.summary = "dung" /\ UpdatesAreForStored)

\* C39: an update was requested in a turn whose label is edit.py's own spelling
\* of 'dung', not 'dung'.
C39_UpdateUnderEditSpelling ==
    /\ Routed /\ UpdateTicketCalls # {}
    /\ turn.summary = MacRoman("dung")
    /\ turn.summary # "dung"
    /\ UpdatesAreForStored

\* C39: with edit.py's spelling of 'dung' in the place of 'dung', a turn calls
\* post_update_ticket only from edit_confirmation under that label, with the
\* stored ticket id and update data.
C39_ExceptTheSpelling ==
    (Routed /\ UpdateTicketCalls # {})
       => (turn.summary = MacRoman("dung") /\ UpdatesAreForStored)

\* C39: the label 'dung' in edit_confirmation requests no update.
C39_CorrectRequestsNothing ==
    (RoutedInEditConfirmation /\ turn.summary = "dung") => UpdateTicketCalls = {}

\* The stored ticket holds serial_number, device_type and problem_description,
\* none of them empty.
HoldsCompleteTicket(sm) ==
    /\ isinstance(sm.pending_ticket_data, "dict")
    /\ \A field \in {"serial_number", "device_type", "problem_description"} :
          /\ field \in DOMAIN sm.pending_ticket_data.v
          /\ sm.pending_ticket_data.v[field] # <<>>

\* C40: whenever the stage is confirmation, pending_ticket_data holds a
\* complete ticket: serial_number, device_type and problem_description are
\* present and non-empty.
C40_ConfirmationHoldsCompleteTicket ==
    stage_manager.current_stage = "confirmation" => HoldsCompleteTicket(stage_manager)

\* C40: a turn labelled 'cho xac nhan' in create that stored nothing has moved
\* the session to confirmation.
C40_ConfirmationWithNothingStored ==
    /\ Routed /\ turn.before.current_stage = "create"
    /\ turn.summary = "cho xac nhan"
    /\ stage_manager.current_stage = "confirmation"
    /\ IsEmpty(stage_manager.pending_ticket_data)

\* C40: a field map received in confirmation has emptied a field of the
\* complete ticket that was stored.
C40_EmptiedByFieldMap ==
    /\ Routed /\ turn.before.current_stage = "confirmation"
    /\ HoldsCompleteTicket(turn.before)
    /\ stage_manager.current_stage = "confirmation"
    /\ ~HoldsCompleteTicket(stage_manager)

\* C40: a turn that enters confirmation by storing a ticket stores a complete
\* one.
C40_StoredOnEntryIsComplete ==
    (/\ Routed /\ turn.before.current_stage \in {"main", "create"}
     /\ stage_manager.current_stage = "confirmation"
     /\ stage_manager.pending_ticket_data # turn.before.pending_ticket_data)
       => HoldsCompleteTicket(stage_manager)

====
